---- MODULE Spec2Model ----
(***************************************************************************)
(* Model of the attendance backend (app/main.py, app/models.py and the     *)
(* alembic migrations): the relational store with its constraints, the     *)
(* per-request SQLAlchemy session (a transaction with pending writes), and *)
(* the request handlers bootstrap and sync_push, each cut into the steps   *)
(* between which another request can be scheduled.                         *)
(*                                                                         *)
(* Text that the code converts (strip, lower, slicing, int(), ISO parsing) *)
(* is a sequence of characters or tokens; None is NoText / NoId / NoTime.  *)
(***************************************************************************)
EXTENDS Integers, Sequences, FiniteSets, TLC

VARIABLES
    db,      \* committed rows of every table
    seq,     \* database sequences / id generators (not transactional)
    clock,   \* datetime.now(timezone.utc), in hours
    req,     \* per worker: the request it is handling and its position
    faults,  \* number of storage faults (connection errors) raised so far
    hist,    \* completed requests: batch, response and store afterwards
    firebase \* the process: auth.py's _app_initialized, firebase_admin's apps

vars == <<db, seq, clock, req, faults, hist, firebase>>

(***************************************************************************)
(* Bounds of the model.                                                    *)
(***************************************************************************)
MaxOps == 2        \* length of a sync batch
MaxFaults == 1     \* storage faults injected in one behaviour

Workers == {"w1", "w2"}

(***************************************************************************)
(* Values.                                                                 *)
(***************************************************************************)
NoText == <<"NULL">>     \* None in a nullable text column or a str | None
NoId == 0                \* None in an integer column; ids start at 1
NoError == "null"        \* SyncPushResult.error = None
NoCursor == "null"       \* SyncPushResponse.cursor = None

Min(a, b) == IF a < b THEN a ELSE b

Range(s) == {s[k] : k \in DOMAIN s}

\* Python truthiness of a str | None value
Truthy(s) == s # NoText /\ s # <<>>

\* dict.get(key, default)
Get(p, key, default) == IF key \in DOMAIN p THEN p[key] ELSE default

\* `not payload.get(key)`: key absent, or an empty string
Missing(p, key) == ~ (key \in DOMAIN p /\ Truthy(p[key]))

\* int(text): ValueError unless every character is a decimal digit
DigitChars == <<"0", "1", "2", "3", "4", "5", "6", "7", "8", "9">>

DigitVal(c) == (CHOOSE k \in DOMAIN DigitChars : DigitChars[k] = c) - 1

IsNumeric(s) == Len(s) > 0 /\ \A k \in DOMAIN s : s[k] \in Range(DigitChars)

RECURSIVE ParseInt(_)
ParseInt(s) ==
    IF Len(s) = 0 THEN 0
    ELSE 10 * ParseInt(SubSeq(s, 1, Len(s) - 1)) + DigitVal(s[Len(s)])

\* timestamp.replace('Z', '+00:00'); an ISO text is <<date-time, offset>>
ReplaceZ(ts) == [k \in DOMAIN ts |-> IF ts[k] = "Z" THEN "+00:00" ELSE ts[k]]

HourOf == [T10 |-> 10, T12 |-> 12]

\* datetime.fromisoformat(text): ValueError unless date-time and offset parse
IsIso(ts) == Len(ts) = 2 /\ ts[1] \in DOMAIN HourOf /\ ts[2] = "+00:00"

FromIso(ts) == HourOf[ts[1]]

\* timedelta(hours=1)
OneHour == 1

\* f"TEMP_{user.firebase_uid[:8]}"
PrefixLen == 8

TempMatric(uid) ==
    <<"T", "E", "M", "P", "_">> \o SubSeq(uid, 1, Min(PrefixLen, Len(uid)))

\* user.external_id or f"TEMP_{...}"
AutoMatric(user) ==
    IF Truthy(user.external_id) THEN user.external_id
    ELSE TempMatric(user.firebase_uid)

(***************************************************************************)
(* The store at start-up: three student users (alice has a Student row,    *)
(* the two others have none and share the first 8 characters of their      *)
(* subject id), one lecturer with one course and one session.              *)
(***************************************************************************)
UidA == <<"a", "l", "i", "c", "e">>
UidB == <<"u", "s", "e", "r", "-", "0", "0", "0", "b">>
UidC == <<"u", "s", "e", "r", "-", "0", "0", "0", "c">>
UidL == <<"p", "r", "o", "f">>
UidX == <<"g", "h", "o", "s", "t">>      \* no User row
UidN == <<"n", "e", "w">>                \* no User row yet; bootstraps

STUDENT == <<"s", "t", "u", "d", "e", "n", "t">>
LECTURER == <<"l", "e", "c", "t", "u", "r", "e", "r">>

UserRow(id, uid, role, ext, dept, done) ==
    [id |-> id, firebase_uid |-> uid, email |-> NoText, name |-> NoText,
     external_id |-> ext, department |-> dept, profile_completed |-> done,
     role |-> role]

InitUsers ==
    { UserRow(1, UidA, STUDENT, <<"M", "1">>, <<"C", "S">>, TRUE),
      UserRow(2, UidB, STUDENT, NoText, NoText, FALSE),
      UserRow(3, UidC, STUDENT, NoText, NoText, FALSE),
      UserRow(4, UidL, LECTURER, <<"L", "1">>, <<"C", "S">>, TRUE) }

InitStudents ==
    { [student_id |-> 1, user_id |-> 1, matric_no |-> <<"M", "1">>,
       department |-> <<"C", "S">>, level |-> NoId] }

InitLecturers ==
    { [lecturer_id |-> 1, user_id |-> 4, department |-> <<"C", "S">>] }

InitCourses ==
    { [course_id |-> 1, course_name |-> <<"A", "l", "g", "o">>,
       course_code |-> <<"C", "S", "1">>, lecturer_id |-> 1] }

InitSessions ==
    { [session_id |-> 1, course_id |-> 1, start_time |-> 10,
       end_time |-> 11, qr_code |-> NoText] }

\* alice may already be enrolled, and may have an Attendance row that the
\* migration 0005 filled with the course of its session
InitEnrollment == [enrollment_id |-> 1, student_id |-> 1, course_id |-> 1]

\* an Attendance row of the schema before migration 0005
OldAttendance ==
    [attendance_id |-> 1, session_id |-> 1, student_id |-> 1,
     status |-> "present", timestamp |-> 10, verified |-> FALSE]

\* variant: the migration adds the column and does not populate it
upgradeColumnOnly(rows, sessions) ==
    {[k \in DOMAIN a \cup {"course_id"} |->
         IF k = "course_id" THEN NoId ELSE a[k]] : a \in rows}

\* migration 0005: add attendance.course_id, then UPDATE attendance SET
\* course_id = session.course_id FROM session WHERE the session ids match
upgrade(rows, sessions) ==
    {[k \in DOMAIN a \cup {"course_id"} |->
         IF k = "course_id"
         THEN IF \E x \in sessions : x.session_id = a.session_id
              THEN (CHOOSE x \in sessions :
                       x.session_id = a.session_id).course_id
              ELSE NoId
         ELSE a[k]] : a \in rows}

InitAttendance ==
    CHOOSE a \in upgrade({OldAttendance}, InitSessions) : TRUE

InitDb(enr, att) ==
    [users |-> InitUsers, students |-> InitStudents,
     lecturers |-> InitLecturers, courses |-> InitCourses,
     sessions |-> InitSessions, enrollments |-> enr, attendance |-> att]

InitSeq ==
    [users |-> 5, students |-> 2, lecturers |-> 2, courses |-> 2,
     sessions |-> 2, enrollments |-> 2, attendance |-> 2]

InitClock == 20

(***************************************************************************)
(* The SQLAlchemy session of one request: rows added and flushed but not   *)
(* committed, and attribute changes of loaded rows that are still dirty.   *)
(***************************************************************************)
EmptyTx ==
    [users |-> {}, students |-> {}, enrollments |-> {}, sessions |-> {},
     attendance |-> {}, attendance_upd |-> {}, users_upd |-> {},
     students_upd |-> {}, lecturers |-> {}, lecturers_upd |-> {},
     courses |-> {}, courses_upd |-> {}]

IdleReq == [kind |-> "none", pc |-> "idle", tx |-> EmptyTx]

\* rows another session has flushed and not yet committed or rolled back
Others(w) == {req[v].tx : v \in Workers \ {w}}

Env == [db |-> db, seq |-> seq, clock |-> clock]

\* apply the dirty attribute changes of one Attendance row
ApplyAttendanceChange(row, c) ==
    [row EXCEPT !.status = c.status, !.verified = c.verified,
                !.timestamp = IF "timestamp" \in DOMAIN c
                              THEN c.timestamp ELSE @]

ApplyAttendanceChanges(rows, upd) ==
    { IF \E c \in upd : c.attendance_id = a.attendance_id
      THEN ApplyAttendanceChange(
               a, CHOOSE c \in upd : c.attendance_id = a.attendance_id)
      ELSE a : a \in rows }

\* an UPDATE of the attributes a session has changed on a loaded row:
\* c = [key |-> primary key, set |-> the changed attributes]
Patch(row, c) ==
    [k \in DOMAIN row |-> IF k \in DOMAIN c.set THEN c.set[k] ELSE row[k]]

\* add the change c to the dirty rows, later assignments override earlier
Dirty(upd, c) ==
    LET old == {o \in upd : o.key = c.key}
    IN  (upd \ old) \cup
        {[key |-> c.key,
          set |-> IF old = {} THEN c.set
                  ELSE [k \in DOMAIN c.set \cup DOMAIN (CHOOSE o \in old : TRUE).set |->
                           IF k \in DOMAIN c.set THEN c.set[k]
                           ELSE (CHOOSE o \in old : TRUE).set[k]]]}

ApplyPatches(rows, upd, id) ==
    { IF \E c \in upd : c.key = row[id]
      THEN Patch(row, CHOOSE c \in upd : c.key = row[id])
      ELSE row : row \in rows }

ApplyUserChanges(rows, upd) == ApplyPatches(rows, upd, "id")

\* what the queries of a session see: committed rows and its own writes
View(tx, d) ==
    [d EXCEPT !.users = ApplyUserChanges(@, tx.users_upd) \cup tx.users,
              !.students =
                  ApplyPatches(@, tx.students_upd, "student_id")
                      \cup tx.students,
              !.lecturers =
                  ApplyPatches(@, tx.lecturers_upd, "lecturer_id")
                      \cup tx.lecturers,
              !.courses =
                  ApplyPatches(@, tx.courses_upd, "course_id")
                      \cup tx.courses,
              !.enrollments = @ \cup tx.enrollments,
              !.sessions = @ \cup tx.sessions,
              !.attendance =
                  ApplyAttendanceChanges(@, tx.attendance_upd)
                      \cup tx.attendance]

(***************************************************************************)
(* Constraints of the schema (models.py and the migrations).               *)
(***************************************************************************)
\* variant: users.firebase_uid without its unique index
UserConflictAbsent(rows, row) == FALSE

\* users.firebase_uid is unique
UserConflict(rows, row) ==
    \E u \in rows : u.firebase_uid = row.firebase_uid

\* variant: student.matric_no without its unique constraint
StudentConflictUserOnly(rows, row) ==
    \E s \in rows : s.user_id = row.user_id

\* student.user_id is unique and student.matric_no is unique
StudentConflict(rows, row) ==
    \E s \in rows : s.user_id = row.user_id \/ s.matric_no = row.matric_no

\* variant: the enrollment table without idx_enrollment_unique
EnrollmentConflictAbsent(rows, row) == FALSE

\* idx_enrollment_unique on (student_id, course_id)
EnrollmentConflict(rows, row) ==
    \E n \in rows :
        n.student_id = row.student_id /\ n.course_id = row.course_id

\* variant: attendance.course_id nullable, as before migration 0005
AttendanceCourseNullable(row) == TRUE

\* attendance.course_id is NOT NULL (and has no default)
AttendanceCourseNotNull(row) == row.course_id # NoId

ErrOperational == "OperationalError: connection lost"
ErrMultiple == "MultipleResultsFound"
ErrNullCourse == "IntegrityError: null value in column course_id of attendance"
ErrStudentUnique == "IntegrityError: duplicate key in student"
ErrEnrollmentUnique == "IntegrityError: duplicate key idx_enrollment_unique"
ErrUserUnique == "IntegrityError: duplicate key uq_users_firebase_uid"
ErrInt == "ValueError: invalid literal for int()"
ErrIso == "ValueError: Invalid isoformat string"

\* the error of flushing the pending rows at commit, NoError when there is none
FlushError(tx) ==
    IF \E a \in tx.attendance : ~ AttendanceCourseNotNull(a)
    THEN ErrNullCourse
    ELSE NoError

ErrForeignKey == "IntegrityError: violates foreign key constraint"
ErrStale == "StaleDataError: UPDATE statement expected to update 1 row(s)"

\* a pending row references a Course that a committed delete has removed,
\* or a dirty Attendance row is gone: NoError when neither is the case
ForeignKeyError(tx, d) ==
    LET ids == {c.course_id : c \in d.courses}
    IN  IF \E x \in tx.sessions \cup tx.enrollments : x.course_id \notin ids
        THEN ErrForeignKey
        ELSE IF \E c \in tx.attendance_upd :
                    \A a \in d.attendance : a.attendance_id # c.attendance_id
        THEN ErrStale
        ELSE NoError

\* the error db.commit() raises, NoError when it succeeds
CommitError(tx, d) ==
    IF FlushError(tx) # NoError THEN FlushError(tx)
    ELSE ForeignKeyError(tx, d)

(***************************************************************************)
(* sync_push: the request record and the ends of one loop iteration.       *)
(***************************************************************************)
NoLocals ==
    [user |-> UserRow(NoId, NoText, NoText, NoText, NoText, FALSE),
     student_id |-> NoId, session_id |-> NoId, course_id |-> NoId,
     attendance_id |-> NoId]

\* results = []; for op in body.ops
NewPush(batch, e) ==
    [kind |-> "push", pc |-> "op", ops |-> batch, i |-> 1, results |-> <<>>,
     response |-> [sent |-> FALSE], tx |-> EmptyTx, loc |-> NoLocals,
     writers |-> {},     \* operations with uncommitted writes in the session
     committed |-> {},   \* operations whose writes have been committed
     opdb |-> e.db,      \* committed store when the current operation began
     start |-> e]        \* environment when the request arrived

CurOp(r) == r.ops[r.i]

Result(r, ok, err) == [op_id |-> CurOp(r).op_id, ok |-> ok, error |-> err]

Out(r, e) == [r |-> r, e |-> e]

AppendResult(r, ok, err) ==
    [r EXCEPT !.results = Append(@, Result(r, ok, err))]

NextOp(r) == [r EXCEPT !.i = @ + 1, !.pc = "op", !.loc = NoLocals]

\* results.append(SyncPushResult(ok=False, error=...)); continue
Fail(r, err) == NextOp(AppendResult(r, FALSE, err))

\* db.rollback(): pending rows are discarded, dirty attributes are reverted
Rollback(r) == [r EXCEPT !.tx = EmptyTx, !.writers = {}]

\* except SQLAlchemyError: db.rollback(); results.append(ok=False, str(e))
OnSQLAlchemyError(r, err) == Fail(Rollback(r), err)

\* except Exception: results.append(ok=False, str(e))
OnException(r, err) == Fail(r, err)

\* db.commit(): flush what is pending, then make it durable
Commit(r, e) ==
    Out([r EXCEPT !.tx = EmptyTx, !.writers = {},
                  !.committed = @ \cup r.writers],
        [e EXCEPT !.db = View(r.tx, e.db)])

\* one_or_none()
Found(rows) == rows # {}

The(rows) == CHOOSE x \in rows : TRUE

Many(rows) == Cardinality(rows) > 1

NextVal(e, table) == [e EXCEPT !.seq[table] = @ + 1]

Now(e) == e.clock

Tick(e) == [e EXCEPT !.clock = @ + 1]

(***************************************************************************)
(* sync_push, one loop iteration, as functions of the request record r and *)
(* the environment e = [db, seq, clock].                                   *)
(***************************************************************************)
IsAttendanceCreate(op) == op.entity = "attendance" /\ op.op = "create"

IsSessionCreate(op) == op.entity = "session" /\ op.op = "create"

\* attendance/create up to the Student lookup
ResolveStudent(r, e) ==
    LET p == CurOp(r).payload
        v == View(r.tx, e.db)
    IN  IF Missing(p, "student_firebase_uid")
        THEN Out(Fail(r, "Missing student_firebase_uid"), e)
        ELSE LET us == {u \in v.users :
                           u.firebase_uid = p.student_firebase_uid}
             IN  IF ~ Found(us)
                 THEN Out(Fail(r, "Student user not found"), e)
                 ELSE LET ss == {s \in v.students : s.user_id = The(us).id}
                      IN  IF ~ Found(ss)
                          THEN Out([r EXCEPT !.loc.user = The(us),
                                             !.pc = "mkstudent"], e)
                          ELSE Out([r EXCEPT
                                       !.loc.user = The(us),
                                       !.loc.student_id = The(ss).student_id,
                                       !.pc = "session"], e)

\* variant: session/create without the Course lookup
ResolveCourseUnchecked(r, e) ==
    LET p == CurOp(r).payload
    IN  IF Missing(p, "course_id")
        THEN Out(Fail(r, "Missing course_id"), e)
        ELSE IF ~ IsNumeric(p.course_id)
        THEN Out(OnException(r, ErrInt), e)
        ELSE Out([r EXCEPT !.loc.course_id = ParseInt(p.course_id),
                           !.pc = "screate"], e)

\* session/create up to the Course lookup
ResolveCourse(r, e) ==
    LET p == CurOp(r).payload
    IN  IF Missing(p, "course_id")
        THEN Out(Fail(r, "Missing course_id"), e)
        ELSE IF ~ IsNumeric(p.course_id)
        THEN Out(OnException(r, ErrInt), e)
        ELSE LET cs == {c \in e.db.courses :
                           c.course_id = ParseInt(p.course_id)}
             IN  IF ~ Found(cs)
                 THEN Out(Fail(r, "Course not found"), e)
                 ELSE Out([r EXCEPT !.loc.course_id = The(cs).course_id,
                                    !.pc = "screate"], e)

\* else: unsupported entity or operation, but don't fail
\* variant: the else branch commits the session before it reports success
SyncOtherCommits(r, e) ==
    LET c == Commit(r, e)
    IN  Out(NextOp(AppendResult(c.r, TRUE, NoError)), c.e)

SyncOther(r, e) == Out(NextOp(AppendResult(r, TRUE, NoError)), e)

\* the head of the loop body: dispatch on (entity, op)
SyncDispatch(r, e) ==
    LET r0 == [r EXCEPT !.opdb = e.db]
    IN  IF IsAttendanceCreate(CurOp(r)) THEN ResolveStudent(r0, e)
        ELSE IF IsSessionCreate(CurOp(r)) THEN ResolveCourse(r0, e)
        ELSE SyncOther(r0, e)

\* Student(...); db.add(student); db.flush()
NewStudent(r, e) ==
    [student_id |-> e.seq.students, user_id |-> r.loc.user.id,
     matric_no |-> AutoMatric(r.loc.user),
     department |-> r.loc.user.department, level |-> NoId]

AutoCreateStudent(r, e) ==
    LET row == NewStudent(r, e)
        e1 == NextVal(e, "students")
    IN  IF StudentConflict(View(r.tx, e.db).students, row)
        THEN Out(OnSQLAlchemyError(r, ErrStudentUnique), e1)
        ELSE Out([r EXCEPT !.tx.students = @ \cup {row},
                           !.writers = @ \cup {r.i},
                           !.loc.student_id = row.student_id,
                           !.pc = "session"], e1)

\* the Session lookup and the Enrollment lookup
ResolveSession(r, e) ==
    LET p == CurOp(r).payload
        v == View(r.tx, e.db)
    IN  IF Missing(p, "session_id")
        THEN Out(Fail(r, "Missing session_id"), e)
        ELSE IF ~ IsNumeric(p.session_id)
        THEN Out(OnException(r, ErrInt), e)
        ELSE LET ss == {s \in v.sessions :
                           s.session_id = ParseInt(p.session_id)}
             IN  IF ~ Found(ss)
                 THEN Out(Fail(r, "Session not found"), e)
                 ELSE LET r1 == [r EXCEPT
                                    !.loc.session_id = The(ss).session_id,
                                    !.loc.course_id = The(ss).course_id]
                          ns == {n \in v.enrollments :
                                    /\ n.student_id = r.loc.student_id
                                    /\ n.course_id = The(ss).course_id}
                      IN  IF ~ Found(ns)
                          THEN Out([r1 EXCEPT !.pc = "mkenroll"], e)
                          ELSE Out([r1 EXCEPT !.pc = "attcheck"], e)

\* Enrollment(...); db.add(enrollment); db.flush()
NewEnrollment(r, e) ==
    [enrollment_id |-> e.seq.enrollments, student_id |-> r.loc.student_id,
     course_id |-> r.loc.course_id]

AutoEnroll(r, e) ==
    LET row == NewEnrollment(r, e)
        e1 == NextVal(e, "enrollments")
    IN  IF EnrollmentConflict(View(r.tx, e.db).enrollments, row)
        THEN Out(OnSQLAlchemyError(r, ErrEnrollmentUnique), e1)
        ELSE IF row.course_id \notin {c.course_id : c \in e.db.courses}
        THEN Out(OnSQLAlchemyError(r, ErrForeignKey), e1)
        ELSE Out([r EXCEPT !.tx.enrollments = @ \cup {row},
                           !.writers = @ \cup {r.i},
                           !.pc = "attcheck"], e1)

\* existing_attendance = db.query(Attendance).filter(...).one_or_none()
CheckAttendance(r, e) ==
    LET as == {a \in View(r.tx, e.db).attendance :
                  /\ a.session_id = r.loc.session_id
                  /\ a.student_id = r.loc.student_id}
    IN  IF Many(as) THEN Out(OnSQLAlchemyError(r, ErrMultiple), e)
        ELSE IF Found(as)
        THEN Out([r EXCEPT !.loc.attendance_id = The(as).attendance_id,
                           !.pc = "update"], e)
        ELSE Out([r EXCEPT !.pc = "insert"], e)

\* a dirty Attendance row: later assignments override earlier ones
MergeChange(upd, c) ==
    LET old == {o \in upd : o.attendance_id = c.attendance_id}
    IN  (upd \ old) \cup
        { IF /\ old # {}
             /\ "timestamp" \in DOMAIN The(old)
             /\ "timestamp" \notin DOMAIN c
          THEN [attendance_id |-> c.attendance_id, status |-> c.status,
                verified |-> c.verified, timestamp |-> The(old).timestamp]
          ELSE c }

BadTimestamp(p, key) == ~ Missing(p, key) /\ ~ IsIso(ReplaceZ(p[key]))

\* variant: an update without timestamp stamps the processing time
UpdateAttendanceStamped(r, e) ==
    LET p == CurOp(r).payload
        c0 == [attendance_id |-> r.loc.attendance_id,
               status |-> Get(p, "status", "present"),
               verified |-> Get(p, "face_verified", FALSE),
               timestamp |-> Now(e)]
        c1 == [attendance_id |-> r.loc.attendance_id,
               status |-> Get(p, "status", "present"),
               verified |-> Get(p, "face_verified", FALSE),
               timestamp |-> FromIso(ReplaceZ(p.timestamp))]
        dirty(c) == [r EXCEPT !.tx.attendance_upd = MergeChange(@, c),
                              !.writers = @ \cup {r.i}]
    IN  IF BadTimestamp(p, "timestamp")
        THEN Out(OnException(dirty(c0), ErrIso), e)
        ELSE LET r1 == IF Missing(p, "timestamp") THEN dirty(c0)
                       ELSE dirty(c1)
             IN  IF CommitError(r1.tx, e.db) # NoError
                 THEN Out(OnSQLAlchemyError(r1, CommitError(r1.tx, e.db)),
                          e)
                 ELSE LET c == Commit(r1, Tick(e))
                      IN  Out([AppendResult(c.r, TRUE, NoError)
                                  EXCEPT !.pc = "log"], c.e)

\* if existing_attendance: overwrite status, verified, timestamp; commit
UpdateAttendance(r, e) ==
    LET p == CurOp(r).payload
        c0 == [attendance_id |-> r.loc.attendance_id,
               status |-> Get(p, "status", "present"),
               verified |-> Get(p, "face_verified", FALSE)]
        c1 == [attendance_id |-> r.loc.attendance_id,
               status |-> Get(p, "status", "present"),
               verified |-> Get(p, "face_verified", FALSE),
               timestamp |-> FromIso(ReplaceZ(p.timestamp))]
        dirty(c) == [r EXCEPT !.tx.attendance_upd = MergeChange(@, c),
                              !.writers = @ \cup {r.i}]
    IN  IF BadTimestamp(p, "timestamp")
        THEN Out(OnException(dirty(c0), ErrIso), e)
        ELSE LET r1 == IF Missing(p, "timestamp") THEN dirty(c0)
                       ELSE dirty(c1)
             IN  IF CommitError(r1.tx, e.db) # NoError
                 THEN Out(OnSQLAlchemyError(r1, CommitError(r1.tx, e.db)),
                          e)
                 ELSE LET c == Commit(r1, e)
                      IN  Out([AppendResult(c.r, TRUE, NoError)
                                  EXCEPT !.pc = "log"], c.e)

\* Attendance(session_id, student_id, status, timestamp, verified)
NewAttendance(r, e, ts) ==
    [attendance_id |-> e.seq.attendance, session_id |-> r.loc.session_id,
     student_id |-> r.loc.student_id, course_id |-> NoId,
     status |-> Get(CurOp(r).payload, "status", "present"),
     timestamp |-> ts,
     verified |-> Get(CurOp(r).payload, "face_verified", FALSE)]

\* else: create the Attendance row; db.add(attendance); db.commit()
CreateAttendance(r, e) ==
    LET p == CurOp(r).payload
    IN  IF BadTimestamp(p, "timestamp")
        THEN Out(OnException(r, ErrIso), e)
        ELSE LET e1 == IF Missing(p, "timestamp") THEN Tick(e) ELSE e
                 ts == IF Missing(p, "timestamp") THEN Now(e)
                       ELSE FromIso(ReplaceZ(p.timestamp))
                 r1 == [r EXCEPT
                           !.tx.attendance = @ \cup {NewAttendance(r, e, ts)},
                           !.writers = @ \cup {r.i}]
                 e2 == NextVal(e1, "attendance")
             IN  IF CommitError(r1.tx, e.db) # NoError
                 THEN Out(OnSQLAlchemyError(r1, CommitError(r1.tx, e.db)),
                          e2)
                 ELSE LET c == Commit(r1, e2)
                      IN  Out([c.r EXCEPT !.pc = "refresh"], c.e)

\* Session(course_id, start_time, end_time, qr_code)
NewSession(r, e, start, end) ==
    [session_id |-> e.seq.sessions, course_id |-> r.loc.course_id,
     start_time |-> start, end_time |-> end,
     qr_code |-> Get(CurOp(r).payload, "qr_code", NoText)]

\* session/create after the Course lookup: parse, db.add, db.commit
CreateSession(r, e) ==
    LET p == CurOp(r).payload
    IN  IF BadTimestamp(p, "start_time") \/ BadTimestamp(p, "end_time")
        THEN Out(OnException(r, ErrIso), e)
        ELSE LET e1 == IF Missing(p, "start_time") THEN Tick(e) ELSE e
                 start == IF Missing(p, "start_time") THEN Now(e)
                          ELSE FromIso(ReplaceZ(p.start_time))
                 end == IF Missing(p, "end_time") THEN start + OneHour
                        ELSE FromIso(ReplaceZ(p.end_time))
                 r1 == [r EXCEPT
                           !.tx.sessions =
                               @ \cup {NewSession(r, e, start, end)},
                           !.writers = @ \cup {r.i}]
                 e2 == NextVal(e1, "sessions")
             IN  IF CommitError(r1.tx, e.db) # NoError
                 THEN Out(OnSQLAlchemyError(r1, CommitError(r1.tx, e.db)),
                          e2)
                 ELSE LET c == Commit(r1, e2)
                      IN  Out([c.r EXCEPT !.pc = "refresh"], c.e)

\* db.refresh(row); results.append(SyncPushResult(op_id=op.op_id, ok=True))
RefreshCreated(r, e) ==
    Out([AppendResult(r, TRUE, NoError) EXCEPT !.pc = "log"], e)

\* logger.info(f"... {row.id} ..."): the commit expired the rows it names,
\* reading their attributes reloads them
LogLine(r, e) == Out(NextOp(r), e)

\* a storage fault in a database call of this iteration
SyncFault(r, e) == Out(OnSQLAlchemyError(r, ErrOperational), e)

\* the statement the request is at is a database call
AtDbCall(r) ==
    LET p == CurOp(r).payload
    IN  CASE r.pc = "op" ->
                \/ /\ IsAttendanceCreate(CurOp(r))
                   /\ ~ Missing(p, "student_firebase_uid")
                \/ /\ IsSessionCreate(CurOp(r))
                   /\ ~ Missing(p, "course_id")
                   /\ IsNumeric(p.course_id)
          [] r.pc = "session" ->
                ~ Missing(p, "session_id") /\ IsNumeric(p.session_id)
          [] r.pc \in {"update", "insert"} -> ~ BadTimestamp(p, "timestamp")
          [] r.pc = "screate" ->
                ~ (BadTimestamp(p, "start_time") \/ BadTimestamp(p, "end_time"))
          [] OTHER -> TRUE

\* return SyncPushResponse(results=results, cursor=None); the session of
\* the request is closed, which discards what it has not committed
Respond(r, e) ==
    Out([r EXCEPT !.pc = "done", !.tx = EmptyTx, !.writers = {},
                  !.response = [sent |-> TRUE, results |-> r.results,
                                cursor |-> NoCursor]], e)

(***************************************************************************)
(* The operations a client can put in a batch.                             *)
(***************************************************************************)
SessionIds == {<<"1">>, <<"9">>, <<"a", "b", "c">>}      \* 1 exists

CourseIds == {<<"1">>, <<"9">>, <<"a", "b", "c">>}       \* 1 exists

AttendancePayloads ==
    {<<>>, [student_firebase_uid |-> UidX, session_id |-> <<"1">>]}
    \cup {[student_firebase_uid |-> u] : u \in {UidA, UidB, UidC}}
    \cup {[student_firebase_uid |-> u, session_id |-> s] :
             u \in {UidA, UidB, UidC}, s \in SessionIds \ {<<"1">>}}
    \cup {[student_firebase_uid |-> u, session_id |-> <<"1">>] :
             u \in {UidA, UidB, UidC}}
    \cup {[student_firebase_uid |-> u, session_id |-> <<"1">>,
           status |-> "late", face_verified |-> TRUE,
           timestamp |-> <<"T12", "Z">>] : u \in {UidA, UidB, UidC}}
    \cup {[student_firebase_uid |-> u, session_id |-> <<"1">>,
           status |-> "late", timestamp |-> <<"yesterday">>] :
             u \in {UidA, UidB, UidC}}

SessionPayloads ==
    {<<>>}
    \cup {[course_id |-> c] : c \in CourseIds}
    \cup {[course_id |-> <<"1">>, start_time |-> <<"T10", "Z">>,
           end_time |-> <<"T12", "+00:00">>],
          [course_id |-> <<"1">>, start_time |-> <<"noon">>],
          [course_id |-> <<"1">>, start_time |-> <<"T10", "Z">>,
           end_time |-> <<"late">>]}

OtherOps ==
    {[entity |-> "foo", op |-> "bar", payload |-> <<>>],
     [entity |-> "attendance", op |-> "delete",
      payload |-> [student_firebase_uid |-> UidB, session_id |-> <<"1">>]],
     [entity |-> "session", op |-> "upsert",
      payload |-> [course_id |-> <<"1">>]]}

OpBodies ==
    {[entity |-> "attendance", op |-> "create", payload |-> p] :
        p \in AttendancePayloads}
    \cup {[entity |-> "session", op |-> "create", payload |-> p] :
             p \in SessionPayloads}
    \cup OtherOps

\* the client numbers the operations of a batch: op_id is the position
MkBatch(bodies) ==
    [k \in DOMAIN bodies |->
        [op_id |-> k, entity |-> bodies[k].entity, op |-> bodies[k].op,
         payload |-> bodies[k].payload]]

Batches == {MkBatch(b) : b \in UNION {[1..n -> OpBodies] : n \in 1..MaxOps}}

(***************************************************************************)
(* Actions: one per step of a handler, for the worker w that runs it.      *)
(***************************************************************************)
Apply(w, out) ==
    /\ req' = [req EXCEPT ![w] = out.r]
    /\ db' = out.e.db
    /\ seq' = out.e.seq
    /\ clock' = out.e.clock
    /\ UNCHANGED firebase

Quiet == \A v \in Workers : req[v].pc \in {"idle", "done"}

InLoop(w, pc) ==
    /\ req[w].kind = "push"
    /\ req[w].pc = pc
    /\ req[w].i <= Len(req[w].ops)

\* a flush waits while another session holds a conflicting pending row
StudentBlocked(w) ==
    \E t \in Others(w) : StudentConflict(t.students, NewStudent(req[w], Env))

EnrollmentBlocked(w) ==
    \E t \in Others(w) :
        EnrollmentConflict(t.enrollments, NewEnrollment(req[w], Env))

\* POST /sync/push arrives, one request at a time
SyncPushBegin(w) ==
    /\ w = "w1"
    /\ req[w].pc = "idle"
    /\ hist = <<>>
    /\ \E b \in Batches : req' = [req EXCEPT ![w] = NewPush(b, Env)]
    /\ UNCHANGED <<db, seq, clock, faults, hist, firebase>>

\* the client retries the batch of the request that has completed
SyncPushRetry(w) ==
    /\ w = "w2"
    /\ req[w].pc = "idle"
    /\ Quiet
    /\ Len(hist) = 1
    /\ req' = [req EXCEPT ![w] = NewPush(hist[1].ops, Env)]
    /\ UNCHANGED <<db, seq, clock, faults, hist, firebase>>

SyncPushDispatch(w) ==
    /\ InLoop(w, "op")
    /\ Apply(w, SyncDispatch(req[w], Env))
    /\ UNCHANGED <<faults, hist>>

SyncPushAutoCreateStudent(w) ==
    /\ InLoop(w, "mkstudent")
    /\ ~ StudentBlocked(w)
    /\ Apply(w, AutoCreateStudent(req[w], Env))
    /\ UNCHANGED <<faults, hist>>

SyncPushResolveSession(w) ==
    /\ InLoop(w, "session")
    /\ Apply(w, ResolveSession(req[w], Env))
    /\ UNCHANGED <<faults, hist>>

SyncPushAutoEnroll(w) ==
    /\ InLoop(w, "mkenroll")
    /\ ~ EnrollmentBlocked(w)
    /\ Apply(w, AutoEnroll(req[w], Env))
    /\ UNCHANGED <<faults, hist>>

SyncPushCheckAttendance(w) ==
    /\ InLoop(w, "attcheck")
    /\ Apply(w, CheckAttendance(req[w], Env))
    /\ UNCHANGED <<faults, hist>>

SyncPushUpdateAttendance(w) ==
    /\ InLoop(w, "update")
    /\ Apply(w, UpdateAttendance(req[w], Env))
    /\ UNCHANGED <<faults, hist>>

SyncPushCreateAttendance(w) ==
    /\ InLoop(w, "insert")
    /\ Apply(w, CreateAttendance(req[w], Env))
    /\ UNCHANGED <<faults, hist>>

SyncPushCreateSession(w) ==
    /\ InLoop(w, "screate")
    /\ Apply(w, CreateSession(req[w], Env))
    /\ UNCHANGED <<faults, hist>>

SyncPushRefresh(w) ==
    /\ InLoop(w, "refresh")
    /\ Apply(w, RefreshCreated(req[w], Env))
    /\ UNCHANGED <<faults, hist>>

SyncPushLog(w) ==
    /\ InLoop(w, "log")
    /\ Apply(w, LogLine(req[w], Env))
    /\ UNCHANGED <<faults, hist>>

\* the database raises OperationalError in the call the request is at
SyncPushFault(w) ==
    /\ req[w].kind = "push"
    /\ req[w].pc \notin {"idle", "done"}
    /\ req[w].i <= Len(req[w].ops)
    /\ AtDbCall(req[w])
    /\ faults < MaxFaults
    /\ faults' = faults + 1
    /\ Apply(w, SyncFault(req[w], Env))
    /\ UNCHANGED hist

SyncPushRespond(w) ==
    /\ req[w].kind = "push"
    /\ req[w].pc = "op"
    /\ req[w].i > Len(req[w].ops)
    /\ Apply(w, Respond(req[w], Env))
    /\ hist' = Append(hist, [kind |-> "push", ops |-> req[w].ops,
                             results |-> req[w].results,
                             before |-> req[w].start.db, db |-> db])
    /\ UNCHANGED faults

SyncPushStep(w) ==
    \/ SyncPushDispatch(w)
    \/ SyncPushAutoCreateStudent(w)
    \/ SyncPushResolveSession(w)
    \/ SyncPushAutoEnroll(w)
    \/ SyncPushCheckAttendance(w)
    \/ SyncPushUpdateAttendance(w)
    \/ SyncPushCreateAttendance(w)
    \/ SyncPushCreateSession(w)
    \/ SyncPushRefresh(w)
    \/ SyncPushLog(w)
    \/ SyncPushRespond(w)

(***************************************************************************)
(* Specifications.                                                         *)
(***************************************************************************)
\* the process at start-up: _app_initialized = False, no Firebase app, and
\* the service-account credentials configured or not
ProcessStart(configured) ==
    [configured |-> configured, app_initialized |-> FALSE, apps |-> 0,
     calls |-> 0]    \* calls of firebase_admin.initialize_app so far

InitStore ==
    /\ firebase = ProcessStart(TRUE)
    /\ \E enr \in SUBSET {InitEnrollment}, att \in SUBSET {InitAttendance} :
           db = InitDb(enr, att)
    /\ seq = InitSeq
    /\ clock = InitClock
    /\ req = [w \in Workers |-> IdleReq]
    /\ hist = <<>>

\* one sync_push request, in which the database may raise storage faults
Init == InitStore /\ faults = 0

Next ==
    \E w \in Workers :
        \/ SyncPushBegin(w)
        \/ SyncPushStep(w)
        \/ SyncPushFault(w)

Spec == Init /\ [][Next]_vars

\* the database raises no storage fault
InitReliable == InitStore /\ faults = MaxFaults

\* a sync_push request and the client's retry of the same batch
NextRetry ==
    \E w \in Workers :
        \/ SyncPushBegin(w)
        \/ SyncPushRetry(w)
        \/ SyncPushStep(w)

SpecRetry == InitReliable /\ [][NextRetry]_vars

(***************************************************************************)
(* bootstrap.                                                              *)
(***************************************************************************)
MaxRequests == 2    \* bootstrap calls in one behaviour

UpperChars == <<"A", "C", "D", "E", "L", "N", "R", "S", "T", "U">>

LowerChars == <<"a", "c", "d", "e", "l", "n", "r", "s", "t", "u">>

\* str.lower(), character by character
LowerChar(c) ==
    IF \E k \in DOMAIN UpperChars : UpperChars[k] = c
    THEN LowerChars[CHOOSE k \in DOMAIN UpperChars : UpperChars[k] = c]
    ELSE c

Lower(s) == [k \in DOMAIN s |-> LowerChar(s[k])]

\* str.strip(): drop leading and trailing blanks
RECURSIVE Strip(_)
Strip(s) ==
    IF Len(s) = 0 THEN s
    ELSE IF s[1] = " " THEN Strip(Tail(s))
    ELSE IF s[Len(s)] = " " THEN Strip(SubSeq(s, 1, Len(s) - 1))
    ELSE s

\* variant: the role is lower-cased but not constrained
NormalizeRoleAny(text) == Lower(Strip(text))

\* role = body.role.strip().lower(); if role not in {...}: role = "student"
NormalizeRole(text) ==
    IF Lower(Strip(text)) \in {STUDENT, LECTURER}
    THEN Lower(Strip(text))
    ELSE STUDENT

NewBoot(body, ctx, e) ==
    [kind |-> "boot", pc |-> "query", body |-> body, ctx |-> ctx,
     role |-> NoText, is_new |-> FALSE, existing |-> NoId,
     response |-> [sent |-> FALSE], tx |-> EmptyTx, start |-> e]

\* the session of the request is closed after the response is built
Reply(r, response) ==
    [r EXCEPT !.pc = "done", !.tx = EmptyTx, !.response = response]

BootstrapResponse(row, is_new) ==
    [sent |-> TRUE, status |-> 200, firebase_uid |-> row.firebase_uid,
     role |-> row.role, profile_completed |-> row.profile_completed,
     is_new_user |-> is_new]

ErrorResponse(status, detail) ==
    [sent |-> TRUE, status |-> status, detail |-> detail]

BootstrapDbError ==
    ErrorResponse(500, "Bootstrap failed (database error). Check DATABASE_URL and run migrations.")

\* normalise the role; existing = db.query(User).filter(...).one_or_none()
BootstrapQuery(r, e) ==
    LET us == {u \in e.db.users : u.firebase_uid = r.ctx.firebase_uid}
        r1 == [r EXCEPT !.role = NormalizeRole(r.body.role),
                        !.is_new = ~ Found(us)]
    IN  IF Many(us) THEN Out(Reply(r1, BootstrapDbError), e)
        ELSE IF Found(us)
        THEN Out([r1 EXCEPT !.existing = The(us).id, !.pc = "update"], e)
        ELSE Out([r1 EXCEPT !.pc = "insert"], e)

\* variant: the update path also resets the profile of the user
OverwrittenAndReset(row, r) ==
    [row EXCEPT !.email = r.ctx.email, !.name = r.ctx.name, !.role = r.role,
                !.external_id = NoText, !.profile_completed = FALSE]

\* existing.email = ctx.email; existing.name = ctx.name; existing.role = role
Overwritten(row, r) ==
    [row EXCEPT !.email = r.ctx.email, !.name = r.ctx.name, !.role = r.role]

\* variant: the update path answers is_new_user = true
BootstrapUpdateAsNew(r, e) ==
    LET row == The({u \in e.db.users : u.id = r.existing})
        new == Overwritten(row, r)
        e1 == [e EXCEPT !.db.users = (@ \ {row}) \cup {new}]
    IN  Out(Reply(r, BootstrapResponse(new, TRUE)), e1)

\* if existing: overwrite email, name, role; commit; refresh; respond
BootstrapUpdate(r, e) ==
    LET row == The({u \in e.db.users : u.id = r.existing})
        new == Overwritten(row, r)
        e1 == [e EXCEPT !.db.users = (@ \ {row}) \cup {new}]
    IN  Out(Reply(r, BootstrapResponse(new, FALSE)), e1)

\* insert(User).values(...).returning(User)
NewUser(r, e) ==
    [id |-> e.seq.users, firebase_uid |-> r.ctx.firebase_uid,
     email |-> r.ctx.email, name |-> r.ctx.name, external_id |-> NoText,
     department |-> NoText, profile_completed |-> FALSE, role |-> r.role]

BootstrapInsert(r, e) ==
    LET row == NewUser(r, e)
        e1 == NextVal(e, "users")
    IN  IF UserConflict(e.db.users, row)
        THEN Out(Reply(r, BootstrapDbError), e1)
        ELSE Out([r EXCEPT !.tx.users = {row}, !.pc = "commit"], e1)

\* db.commit(); return BootstrapResponse(..., is_new_user=is_new)
BootstrapCommit(r, e) ==
    Out(Reply(r, BootstrapResponse(The(r.tx.users), r.is_new)),
        [e EXCEPT !.db = View(r.tx, e.db)])

\* except SQLAlchemyError: HTTPException(500)
BootstrapFail(r, e) == Out(Reply(r, BootstrapDbError), e)

\* what a verified token and a request body can carry
Tokens ==
    {[firebase_uid |-> u, email |-> m, name |-> NoText] :
        u \in {UidN, UidA}, m \in {NoText, <<"n", "@", "x">>}}

RoleTexts ==
    {STUDENT, <<" ", "L", "e", "c", "t", "u", "r", "e", "r">>,
     <<"a", "d", "m", "i", "n">>}

Active == {v \in Workers : req[v].pc \notin {"idle", "done"}}

UserBlocked(w) ==
    \E t \in Others(w) : UserConflict(t.users, NewUser(req[w], Env))

\* POST /auth/bootstrap arrives while other requests may be in progress
BootstrapBegin(w) ==
    /\ req[w].pc \in {"idle", "done"}
    /\ Len(hist) + Cardinality(Active) < MaxRequests
    /\ \E ctx \in Tokens, role \in RoleTexts :
           req' = [req EXCEPT ![w] = NewBoot([role |-> role], ctx, Env)]
    /\ UNCHANGED <<db, seq, clock, faults, hist, firebase>>

\* POST /auth/bootstrap arrives after the previous call has been answered
BootstrapBeginNext(w) == Quiet /\ BootstrapBegin(w)

Answered(w) ==
    hist' = IF req'[w].response.sent
            THEN Append(hist, [kind |-> "boot", ctx |-> req[w].ctx,
                               response |-> req'[w].response,
                               before |-> req[w].start.db, db |-> db'])
            ELSE hist

InBoot(w, pc) == req[w].kind = "boot" /\ req[w].pc = pc

BootstrapLookup(w) ==
    /\ InBoot(w, "query")
    /\ Apply(w, BootstrapQuery(req[w], Env))
    /\ Answered(w)
    /\ UNCHANGED faults

BootstrapRefresh(w) ==
    /\ InBoot(w, "update")
    /\ Apply(w, BootstrapUpdate(req[w], Env))
    /\ Answered(w)
    /\ UNCHANGED faults

BootstrapCreate(w) ==
    /\ InBoot(w, "insert")
    /\ ~ UserBlocked(w)
    /\ Apply(w, BootstrapInsert(req[w], Env))
    /\ Answered(w)
    /\ UNCHANGED faults

BootstrapCommitted(w) ==
    /\ InBoot(w, "commit")
    /\ Apply(w, BootstrapCommit(req[w], Env))
    /\ Answered(w)
    /\ UNCHANGED faults

\* the database raises OperationalError in the call the request is at
BootstrapFault(w) ==
    /\ req[w].kind = "boot"
    /\ req[w].pc \in {"query", "update", "insert", "commit"}
    /\ faults < MaxFaults
    /\ faults' = faults + 1
    /\ Apply(w, BootstrapFail(req[w], Env))
    /\ Answered(w)

BootstrapStep(w) ==
    \/ BootstrapLookup(w)
    \/ BootstrapRefresh(w)
    \/ BootstrapCreate(w)
    \/ BootstrapCommitted(w)

\* bootstrap calls one after the other, no storage fault
NextBootSeq ==
    \E w \in Workers :
        \/ BootstrapBeginNext(w)
        \/ BootstrapStep(w)

SpecBootSeq == InitReliable /\ [][NextBootSeq]_vars

\* bootstrap calls that overlap, with storage faults
NextBoot ==
    \E w \in Workers :
        \/ BootstrapBegin(w)
        \/ BootstrapStep(w)
        \/ BootstrapFault(w)

SpecBoot == Init /\ [][NextBoot]_vars

(***************************************************************************)
(* get_auth_context: the dependency every endpoint runs before its         *)
(* handler.                                                                *)
(***************************************************************************)
BearerPrefix == <<"B", "e", "a", "r", "e", "r", " ">>

\* str.startswith(prefix)
StartsWith(s, prefix) ==
    Len(s) >= Len(prefix) /\ SubSeq(s, 1, Len(prefix)) = prefix

\* str.removeprefix(prefix)
RemovePrefix(s, prefix) ==
    IF StartsWith(s, prefix) THEN SubSeq(s, Len(prefix) + 1, Len(s)) ELSE s

\* auth.verify_id_token(token): the claims of the tokens the identity
\* provider has issued; every other token raises
IssuedTokens ==
    [g |-> [uid |-> UidN, email |-> <<"n", "@", "x">>],
     a |-> [uid |-> UidA, name |-> <<"A", "l">>],
     b |-> [uid |-> UidB],
     l |-> [uid |-> UidL],
     n |-> [email |-> <<"n", "@", "x">>],
     e |-> [uid |-> <<>>]]

TokenKey(token) == IF Len(token) = 1 THEN token[1] ELSE "?"

Verifies(token) == TokenKey(token) \in DOMAIN IssuedTokens

Unauthorized(detail) == [ok |-> FALSE, response |-> ErrorResponse(401, detail)]

AuthInitError ==
    [ok |-> FALSE,
     response |-> ErrorResponse(500, "Server auth is not configured (Firebase Admin init failed).")]

\* variant: a token without uid is accepted with an empty subject id
GetAuthContextNoUidCheck(authorization, configured) ==
    LET token == Strip(RemovePrefix(authorization, BearerPrefix))
        decoded == IssuedTokens[TokenKey(token)]
    IN  IF ~ Truthy(authorization)
        THEN Unauthorized("Missing Authorization header")
        ELSE IF ~ StartsWith(authorization, BearerPrefix)
        THEN Unauthorized("Invalid Authorization header")
        ELSE IF token = <<>>
        THEN Unauthorized("Missing Bearer token")
        ELSE IF ~ configured THEN AuthInitError
        ELSE IF ~ Verifies(token)
        THEN Unauthorized("Invalid or expired token")
        ELSE [ok |-> TRUE,
              ctx |-> [firebase_uid |-> Get(decoded, "uid", <<>>),
                       email |-> Get(decoded, "email", NoText),
                       name |-> Get(decoded, "name", NoText)]]

\* configured: _init_firebase() finds credentials and does not raise
GetAuthContext(authorization, configured) ==
    LET token == Strip(RemovePrefix(authorization, BearerPrefix))
        decoded == IssuedTokens[TokenKey(token)]
    IN  IF ~ Truthy(authorization)
        THEN Unauthorized("Missing Authorization header")
        ELSE IF ~ StartsWith(authorization, BearerPrefix)
        THEN Unauthorized("Invalid Authorization header")
        ELSE IF token = <<>>
        THEN Unauthorized("Missing Bearer token")
        ELSE IF ~ configured THEN AuthInitError
        ELSE IF ~ Verifies(token)
        THEN Unauthorized("Invalid or expired token")
        ELSE IF Missing(decoded, "uid")
        THEN Unauthorized("Token missing uid")
        ELSE [ok |-> TRUE,
              ctx |-> [firebase_uid |-> decoded.uid,
                       email |-> Get(decoded, "email", NoText),
                       name |-> Get(decoded, "name", NoText)]]

\* the Authorization headers a client can send
Headers ==
    {NoText, <<>>, <<"B", "a", "s", "i", "c", " ", "g">>,
     <<"b", "e", "a", "r", "e", "r", " ", "g">>,
     <<"B", "e", "a", "r", "e", "r">>,
     BearerPrefix, BearerPrefix \o <<" ", " ">>,
     BearerPrefix \o <<"x">>, BearerPrefix \o <<"n">>,
     BearerPrefix \o <<"e">>, BearerPrefix \o <<"g", "g">>,
     BearerPrefix \o <<"g">>, BearerPrefix \o <<" ", "a", " ">>,
     BearerPrefix \o <<"b">>, BearerPrefix \o <<"l">>}

(***************************************************************************)
(* The except clauses of the endpoints outside sync_push, and the two      *)
(* read endpoints of a student.                                            *)
(***************************************************************************)
SQLALCHEMY_ERROR == "SQLAlchemyError"
OTHER_ERROR == "Exception"

ErrorTexts == {"connection lost", "relation attendance does not exist"}

\* an exception raised inside a handler: its class and str(e)
Exceptions == [cls : {SQLALCHEMY_ERROR, OTHER_ERROR}, text : ErrorTexts]

\* f"Failed to retrieve student sessions: {str(e)}"
StudentSessionsDetail(text) ==
    CASE text = "connection lost" ->
             "Failed to retrieve student sessions: connection lost"
      [] text = "relation attendance does not exist" ->
             "Failed to retrieve student sessions: relation attendance does not exist"
      [] text = ErrMultiple ->
             "Failed to retrieve student sessions: MultipleResultsFound"

\* the HTTPException(500) of the endpoint's except clauses for exception x
ServerError(endpoint, x) ==
    LET db_error == x.cls = SQLALCHEMY_ERROR
    IN  CASE endpoint = "boot" ->
                 IF db_error THEN BootstrapDbError
                 ELSE ErrorResponse(500, "Bootstrap failed (server error).")
          [] endpoint = "complete_profile" ->
                 IF db_error
                 THEN ErrorResponse(500, "Profile update failed (database error).")
                 ELSE ErrorResponse(500, "Profile update failed (server error).")
          [] endpoint = "profile_info" ->
                 ErrorResponse(500, "Failed to retrieve profile info.")
          [] endpoint = "profile_update" ->
                 IF db_error
                 THEN ErrorResponse(500, "Profile update failed (database error).")
                 ELSE ErrorResponse(500, "Profile update failed (server error).")
          [] endpoint = "create_course" ->
                 IF db_error
                 THEN ErrorResponse(500, "Failed to create course (database error).")
                 ELSE ErrorResponse(500, "Failed to create course.")
          [] endpoint = "update_course" ->
                 IF db_error
                 THEN ErrorResponse(500, "Failed to update course (database error).")
                 ELSE ErrorResponse(500, "Failed to update course.")
          [] endpoint = "delete_course" ->
                 IF db_error
                 THEN ErrorResponse(500, "Failed to delete course (database error).")
                 ELSE ErrorResponse(500, "Failed to delete course.")
          [] endpoint = "get_my_courses" ->
                 ErrorResponse(500, "Failed to retrieve courses.")
          [] endpoint = "get_course_sessions" ->
                 ErrorResponse(500, "Failed to retrieve sessions.")
          [] endpoint = "create_session" ->
                 IF db_error
                 THEN ErrorResponse(500, "Failed to create session (database error).")
                 ELSE ErrorResponse(500, "Failed to create session.")
          [] endpoint = "get_session_attendance" ->
                 ErrorResponse(500, "Failed to retrieve attendance.")
          [] endpoint = "get_course_students" ->
                 ErrorResponse(500, "Failed to retrieve students.")
          [] endpoint = "get_student_courses" ->
                 ErrorResponse(500, "Failed to retrieve student courses.")
          [] endpoint = "get_student_sessions" ->
                 ErrorResponse(500, StudentSessionsDetail(x.text))

Endpoints ==
    {"boot", "complete_profile", "profile_info", "profile_update",
     "create_course", "update_course", "delete_course", "get_my_courses",
     "get_course_sessions", "create_session", "get_session_attendance",
     "get_course_students", "get_student_courses", "get_student_sessions"}

\* a handler of an endpoint: its session starts empty
\* plan: objects added to the session or changed in it, flushed at commit
NewCall(endpoint, args, ctx, e) ==
    [kind |-> endpoint, pc |-> "run", args |-> args, ctx |-> ctx,
     response |-> [sent |-> FALSE], tx |-> EmptyTx, plan |-> EmptyTx,
     conflict |-> "none",    \* the unique constraint that refused the call
     start |-> e]

\* except ...: db.rollback(); raise HTTPException(500, ...)
Raise(r, e, x) == Out(Reply(r, ServerError(r.kind, x)), e)

OkResponse(body) == [sent |-> TRUE, status |-> 200, body |-> body]

\* the user and the student row (.first()) the two read endpoints start from
StudentOfCaller(r, d) ==
    LET us == {u \in d.users : u.firebase_uid = r.ctx.firebase_uid}
        ss == {x \in d.students : \E u \in us : x.user_id = u.id}
    IN  IF ~ Found(us) THEN ErrorResponse(404, "User not found")
        ELSE IF The(us).role # STUDENT
        THEN ErrorResponse(403, "Only students can access this endpoint")
        ELSE IF ~ Found(ss)
        THEN ErrorResponse(404, "Student profile not found")
        ELSE OkResponse(The(ss))

\* GET /student/my-courses; the list is kept as the set of its items
GetStudentCourses(r, e) ==
    LET who == StudentOfCaller(r, e.db)
        ids == {n.course_id : n \in {n \in e.db.enrollments :
                                       n.student_id = who.body.student_id}}
        items == {[course_id |-> c.course_id, course_code |-> c.course_code,
                   course_name |-> c.course_name,
                   lecturer_id |-> c.lecturer_id] :
                     c \in {c \in e.db.courses : c.course_id \in ids}}
    IN  IF who.status # 200 THEN Out(Reply(r, who), e)
        ELSE Out(Reply(r, OkResponse(
                 [student_id |-> who.body.student_id,
                  matric_no |-> who.body.matric_no,
                  enrolled_courses |-> items,
                  total_enrollments |-> Cardinality(items)])), e)

\* GET /student/my-sessions; the list is kept as the set of its items
GetStudentSessions(r, e) ==
    LET who == StudentOfCaller(r, e.db)
        ids == {n.course_id : n \in {n \in e.db.enrollments :
                                       n.student_id = who.body.student_id}}
        sessions == {x \in e.db.sessions : x.course_id \in ids}
        course(x) == {c \in e.db.courses : c.course_id = x.course_id}
        marks(x) == {a \in e.db.attendance :
                        /\ a.session_id = x.session_id
                        /\ a.student_id = who.body.student_id}
        items == {[session_id |-> x.session_id,
                   course_code |-> The(course(x)).course_code,
                   course_name |-> The(course(x)).course_name,
                   start_time |-> x.start_time, end_time |-> x.end_time,
                   attendance_status |->
                       IF Found(marks(x)) THEN The(marks(x)).status
                       ELSE "null"] :
                     x \in {x \in sessions : Found(course(x))}}
    IN  IF who.status # 200 THEN Out(Reply(r, who), e)
        ELSE IF \E x \in sessions : Found(course(x)) /\ Many(marks(x))
        THEN Raise(r, e, [cls |-> SQLALCHEMY_ERROR, text |-> ErrMultiple])
        ELSE Out(Reply(r, OkResponse(items)), e)

(***************************************************************************)
(* Requests that pass through get_auth_context before their handler.       *)
(***************************************************************************)
MaxCalls == 1       \* authenticated requests in one behaviour

AuthEndpoints == {"boot", "get_student_courses", "get_student_sessions"}

NewHttp(endpoint, header, configured, body, e) ==
    [kind |-> "http", pc |-> "auth", endpoint |-> endpoint,
     header |-> header, configured |-> configured, body |-> body,
     response |-> [sent |-> FALSE], tx |-> EmptyTx, start |-> e]

\* Depends(require_auth): an HTTPException ends the request, else the
\* handler of the endpoint starts with the AuthContext
Authenticate(r, e) ==
    LET a == GetAuthContext(r.header, r.configured)
    IN  IF ~ a.ok THEN Out(Reply(r, a.response), e)
        ELSE IF r.endpoint = "boot" THEN Out(NewBoot(r.body, a.ctx, e), e)
        ELSE Out(NewCall(r.endpoint, r.body, a.ctx, e), e)

\* a request that has been answered enters the history
Logged(w) ==
    hist' = IF req'[w].response.sent
            THEN Append(hist, [kind |-> req[w].kind, request |-> req[w],
                               response |-> req'[w].response,
                               before |-> req[w].start.db, db |-> db'])
            ELSE hist

HttpArrive(w) ==
    /\ req[w].pc \in {"idle", "done"}
    /\ Len(hist) + Cardinality(Active) < MaxCalls
    /\ \E endpoint \in AuthEndpoints, header \in Headers,
          configured \in BOOLEAN, role \in RoleTexts :
           /\ endpoint # "boot" => role = STUDENT
           /\ req' = [req EXCEPT ![w] =
                         NewHttp(endpoint, header, configured,
                                 [role |-> role], Env)]
    /\ UNCHANGED <<db, seq, clock, faults, hist, firebase>>

HttpAuthenticate(w) ==
    /\ req[w].kind = "http" /\ req[w].pc = "auth"
    /\ Apply(w, Authenticate(req[w], Env))
    /\ Logged(w)
    /\ UNCHANGED faults

InCall(w, endpoint) == req[w].kind = endpoint /\ req[w].pc = "run"

StudentCoursesRun(w) ==
    /\ InCall(w, "get_student_courses")
    /\ Apply(w, GetStudentCourses(req[w], Env))
    /\ Logged(w)
    /\ UNCHANGED faults

StudentSessionsRun(w) ==
    /\ InCall(w, "get_student_sessions")
    /\ Apply(w, GetStudentSessions(req[w], Env))
    /\ Logged(w)
    /\ UNCHANGED faults

\* a query of a read endpoint raises
ReadFault(w) ==
    /\ req[w].kind \in {"get_student_courses", "get_student_sessions"}
    /\ req[w].pc = "run"
    /\ faults < MaxFaults
    /\ faults' = faults + 1
    /\ \E x \in Exceptions : Apply(w, Raise(req[w], Env, x))
    /\ Logged(w)

NextAuth ==
    \E w \in Workers :
        \/ HttpArrive(w)
        \/ HttpAuthenticate(w)
        \/ BootstrapStep(w)
        \/ BootstrapFault(w)
        \/ StudentCoursesRun(w)
        \/ StudentSessionsRun(w)
        \/ ReadFault(w)

SpecAuth == Init /\ [][NextAuth]_vars

(***************************************************************************)
(* complete_profile and profile_update.                                    *)
(***************************************************************************)
CallerOf(r, d) == {u \in d.users : u.firebase_uid = r.ctx.firebase_uid}

\* `if body.name: name_val = body.name.strip(); if name_val:`
GivenText(body, key) ==
    /\ key \in DOMAIN body
    /\ Truthy(body[key])
    /\ Strip(body[key]) # <<>>

MatricTaken ==
    "Matric number is already registered to another account."

\* raise HTTPException(400, f"Matric number {external_id} is already ...")
MatricConflict(r, ext) ==
    Reply([r EXCEPT !.conflict = "matric_no"],
          [sent |-> TRUE, status |-> 400, detail |-> MatricTaken,
           external_id |-> ext])

\* Student(user_id, matric_no, department, level=None); the id comes with
\* the flush
PlannedStudent(user_id, ext, dept) ==
    [student_id |-> NoId, user_id |-> user_id, matric_no |-> ext,
     department |-> dept, level |-> NoId]

PlannedLecturer(user_id, dept) ==
    [lecturer_id |-> NoId, user_id |-> user_id, department |-> dept]

\* the Lecturer row of the user is created or follows the department
PlanLecturer(r, d, user_id, dept) ==
    LET ls == {l \in d.lecturers : l.user_id = user_id}
    IN  IF ~ Found(ls)
        THEN [r EXCEPT !.plan.lecturers = {PlannedLecturer(user_id, dept)}]
        ELSE [r EXCEPT !.plan.lecturers_upd =
                 Dirty(@, [key |-> The(ls).lecturer_id,
                           set |-> [department |-> dept]])]

\* POST /profile/complete up to db.commit()
CompleteProfile(r, e) ==
    LET d == e.db
        us == CallerOf(r, d)
        user == The(us)
        ext == Strip(r.args.external_id)
        dept == Strip(r.args.department)
        set == IF GivenText(r.args, "name")
               THEN [external_id |-> ext, department |-> dept,
                     name |-> Strip(r.args.name), profile_completed |-> TRUE]
               ELSE [external_id |-> ext, department |-> dept,
                     profile_completed |-> TRUE]
        r1 == [r EXCEPT !.plan.users_upd =
                  Dirty(@, [key |-> user.id, set |-> set]),
                        !.pc = "commit"]
        ss == {x \in d.students : x.user_id = user.id}
    IN  IF ~ Found(us)
        THEN Out(Reply(r, ErrorResponse(404, "User not found")), e)
        ELSE IF user.role = STUDENT
        THEN IF ~ Found(ss)
             THEN IF \E x \in d.students : x.matric_no = ext
                  THEN Out(MatricConflict(r, ext), e)
                  ELSE Out([r1 EXCEPT !.plan.students =
                               {PlannedStudent(user.id, ext, dept)}], e)
             ELSE IF /\ The(ss).matric_no # ext
                     /\ \E x \in d.students :
                            x.matric_no = ext /\ x.user_id # user.id
                  THEN Out(MatricConflict(r, ext), e)
                  ELSE Out([r1 EXCEPT !.plan.students_upd =
                               Dirty(@, [key |-> The(ss).student_id,
                                         set |-> [matric_no |-> ext,
                                                  department |-> dept]])], e)
        ELSE IF user.role = LECTURER
        THEN Out(PlanLecturer(r1, d, user.id, dept), e)
        ELSE Out(r1, e)

\* variant: profile_update changes the User row and no Student row
ProfileUpdateUserOnly(r, e) ==
    LET d == e.db
        us == CallerOf(r, d)
        user == The(us)
        given == {k \in {"name", "external_id", "department"} :
                     GivenText(r.args, k)}
        set1 == [k \in given |-> Strip(r.args[k])]
        u1 == Patch(user, [key |-> user.id, set |-> set1])
        done == Truthy(u1.external_id) /\ Truthy(u1.department)
        set2 == [k \in given \cup (IF done THEN {"profile_completed"} ELSE {})
                    |-> IF k = "profile_completed" THEN TRUE ELSE set1[k]]
        r1 == [r EXCEPT !.plan.users_upd =
                  Dirty(@, [key |-> user.id, set |-> set2]),
                        !.pc = "commit"]
    IN  IF ~ Found(us)
        THEN Out(Reply(r, ErrorResponse(404, "User not found")), e)
        ELSE IF u1.role = LECTURER
        THEN Out(PlanLecturer(r1, d, user.id, u1.department), e)
        ELSE Out(r1, e)

\* PATCH /profile/update up to db.commit()
ProfileUpdate(r, e) ==
    LET d == e.db
        us == CallerOf(r, d)
        user == The(us)
        given == {k \in {"name", "external_id", "department"} :
                     GivenText(r.args, k)}
        set1 == [k \in given |-> Strip(r.args[k])]
        u1 == Patch(user, [key |-> user.id, set |-> set1])
        done == Truthy(u1.external_id) /\ Truthy(u1.department)
        set2 == [k \in given \cup (IF done THEN {"profile_completed"} ELSE {})
                    |-> IF k = "profile_completed" THEN TRUE ELSE set1[k]]
        r1 == [r EXCEPT !.plan.users_upd =
                  Dirty(@, [key |-> user.id, set |-> set2]),
                        !.pc = "commit"]
        ss == {x \in d.students : x.user_id = user.id}
        r2 == IF u1.role = STUDENT /\ Truthy(u1.external_id)
              THEN IF ~ Found(ss)
                   THEN [r1 EXCEPT !.plan.students =
                            {PlannedStudent(user.id, u1.external_id,
                                            u1.department)}]
                   ELSE [r1 EXCEPT !.plan.students_upd =
                            Dirty(@, [key |-> The(ss).student_id,
                                      set |-> [matric_no |-> u1.external_id,
                                               department |-> u1.department]])]
              ELSE r1
    IN  IF ~ Found(us)
        THEN Out(Reply(r, ErrorResponse(404, "User not found")), e)
        ELSE IF u1.role = LECTURER
        THEN Out(PlanLecturer(r2, d, user.id, u1.department), e)
        ELSE Out(r2, e)

\* the planned rows with the ids the flush draws from the sequences
Flushed(plan, e) ==
    [plan EXCEPT
        !.students = {[x EXCEPT !.student_id = e.seq.students] : x \in @},
        !.lecturers = {[x EXCEPT !.lecturer_id = e.seq.lecturers] : x \in @},
        !.courses = {[x EXCEPT !.course_id = e.seq.courses] : x \in @}]

Drawn(plan, e) ==
    [e EXCEPT
        !.seq.students = @ + Cardinality(plan.students),
        !.seq.lecturers = @ + Cardinality(plan.lecturers),
        !.seq.courses = @ + Cardinality(plan.courses)]

\* lecturer.user_id is unique
LecturerConflict(rows, row) == \E l \in rows : l.user_id = row.user_id

\* variant: the flush of a new Student row checks the registration number
\* and not the owning user
StudentFlushConflictMatricOnly(plan, d) ==
    \/ \E x \in plan.students : \E y \in d.students :
           y.matric_no = x.matric_no
    \/ \E x \in d.students : \E c \in plan.students_upd :
           /\ c.key = x.student_id
           /\ \E y \in d.students \ {x} :
                  y.matric_no = Patch(x, c).matric_no

\* a Student row written by the flush breaks a unique constraint of student
StudentFlushConflict(plan, d) ==
    \/ \E x \in plan.students : StudentConflict(d.students, x)
    \/ \E x \in d.students : \E c \in plan.students_upd :
           /\ c.key = x.student_id
           /\ \E y \in d.students \ {x} :
                  y.matric_no = Patch(x, c).matric_no

\* the response of the endpoint after db.commit() (and db.refresh(user))
ProfileResponse(r, d) ==
    LET user == The(CallerOf(r, d))
    IN  IF r.kind = "complete_profile"
        THEN OkResponse([ok |-> TRUE, profile_completed |-> TRUE])
        ELSE OkResponse([firebase_uid |-> user.firebase_uid,
                         email |-> user.email, name |-> user.name,
                         role |-> user.role,
                         external_id |-> user.external_id,
                         department |-> user.department,
                         profile_completed |-> user.profile_completed])

\* db.commit() of complete_profile and profile_update
ProfileCommit(r, e) ==
    LET plan == Flushed(r.plan, e)
        e1 == Drawn(r.plan, e)
        e2 == [e1 EXCEPT !.db = View(plan, e.db)]
    IN  IF StudentFlushConflict(plan, e.db)
        THEN Raise([r EXCEPT !.conflict =
                       IF \E x \in plan.students : \E y \in e.db.students :
                              y.user_id = x.user_id
                                  /\ y.matric_no # x.matric_no
                       THEN "user_id" ELSE "matric_no"], e1,
                   [cls |-> SQLALCHEMY_ERROR, text |-> ErrStudentUnique])
        ELSE IF \E x \in plan.lecturers : LecturerConflict(e.db.lecturers, x)
        THEN Raise([r EXCEPT !.conflict = "user_id"], e1,
                   [cls |-> SQLALCHEMY_ERROR, text |-> "lecturer_user_id_key"])
        ELSE Out(Reply(r, ProfileResponse(r, e2.db)), e2)

MaxProfileCalls == 2    \* profile, bootstrap and sync requests in one behaviour

Dept == <<"C", "S">>
Blank == <<" ">>
M1 == <<"M", "1">>
PaddedM2 == <<" ", "M", "2", " ">>

ContextOf(uid) == [firebase_uid |-> uid, email |-> NoText, name |-> NoText]

CompleteBodies ==
    {[external_id |-> M1, department |-> Dept],
     [external_id |-> PaddedM2, department |-> Dept,
      name |-> <<" ", "A", "l">>],
     [external_id |-> Blank, department |-> Dept]}

UpdateBodies ==
    {[external_id |-> M1],
     [external_id |-> PaddedM2, department |-> Dept],
     [external_id |-> Blank, department |-> Blank, name |-> <<"A", "l">>]}

ProfileCall(endpoint, body, uid) ==
    [endpoint |-> endpoint, body |-> body, uid |-> uid]

BodyOf(bodies, external_id) ==
    CHOOSE b \in bodies : b.external_id = external_id

ProfileCalls ==
    {ProfileCall("complete_profile", b, UidB) : b \in CompleteBodies}
    \cup {ProfileCall("complete_profile", BodyOf(CompleteBodies, PaddedM2), u) :
             u \in {UidA, UidL, UidX}}
    \cup {ProfileCall("profile_update", b, UidB) : b \in UpdateBodies}
    \cup {ProfileCall("profile_update", BodyOf(UpdateBodies, PaddedM2), u) :
             u \in {UidA, UidL}}

ProfileSyncBody(uid) ==
    [entity |-> "attendance", op |-> "create",
     payload |-> [student_firebase_uid |-> uid]]

ProfileSyncSession ==
    [entity |-> "session", op |-> "create",
     payload |-> [course_id |-> <<"1">>]]

ProfileSyncCheckIn(uid) ==
    [entity |-> "attendance", op |-> "create",
     payload |-> [student_firebase_uid |-> uid, session_id |-> <<"1">>]]

ProfileBatches ==
    {MkBatch(b) :
        b \in {<<ProfileSyncCheckIn(UidA), ProfileSyncCheckIn(UidB)>>,
               <<ProfileSyncBody(UidB), ProfileSyncBody(UidC)>>,
               <<ProfileSyncBody(UidB), ProfileSyncSession>>}}

ProfileArrivals(e) ==
    {NewCall(c.endpoint, c.body, ContextOf(c.uid), e) :
        c \in ProfileCalls}
    \cup {NewBoot([role |-> STUDENT], ContextOf(UidX), e)}
    \cup {NewPush(b, e) : b \in ProfileBatches}

\* a request arrives after the previous one has been answered
ProfileArrive(w) ==
    /\ Quiet
    /\ Len(hist) < MaxProfileCalls
    /\ \E r \in ProfileArrivals(Env) : req' = [req EXCEPT ![w] = r]
    /\ UNCHANGED <<db, seq, clock, faults, hist, firebase>>

\* the INSERT of the flush waits for a session that holds a pending Student
\* row with the same user or registration number
ProfileBlocked(w) ==
    \E t \in Others(w) : \E x \in req[w].plan.students :
        StudentConflict(t.students, x)

CompleteProfileRun(w) ==
    /\ InCall(w, "complete_profile")
    /\ Apply(w, CompleteProfile(req[w], Env))
    /\ Logged(w)
    /\ UNCHANGED faults

ProfileUpdateRun(w) ==
    /\ InCall(w, "profile_update")
    /\ Apply(w, ProfileUpdate(req[w], Env))
    /\ Logged(w)
    /\ UNCHANGED faults

ProfileCommitted(w) ==
    /\ req[w].kind \in {"complete_profile", "profile_update"}
    /\ req[w].pc = "commit"
    /\ ~ ProfileBlocked(w)
    /\ Apply(w, ProfileCommit(req[w], Env))
    /\ Logged(w)
    /\ UNCHANGED faults

\* a database call of the handler raises
ProfileFault(w) ==
    /\ req[w].kind \in {"complete_profile", "profile_update"}
    /\ req[w].pc \in {"run", "commit"}
    /\ faults < MaxFaults
    /\ faults' = faults + 1
    /\ \E x \in Exceptions : Apply(w, Raise(req[w], Env, x))
    /\ Logged(w)

\* sync_push in a behaviour whose history holds every kind of request
SyncPushAnswer(w) ==
    /\ req[w].kind = "push"
    /\ req[w].pc = "op"
    /\ req[w].i > Len(req[w].ops)
    /\ Apply(w, Respond(req[w], Env))
    /\ Logged(w)
    /\ UNCHANGED faults

SyncPushWork(w) ==
    \/ SyncPushDispatch(w)
    \/ SyncPushAutoCreateStudent(w)
    \/ SyncPushResolveSession(w)
    \/ SyncPushAutoEnroll(w)
    \/ SyncPushCheckAttendance(w)
    \/ SyncPushUpdateAttendance(w)
    \/ SyncPushCreateAttendance(w)
    \/ SyncPushCreateSession(w)
    \/ SyncPushRefresh(w)
    \/ SyncPushLog(w)
    \/ SyncPushAnswer(w)

InitProfile ==
    /\ firebase = ProcessStart(TRUE)
    /\ db = InitDb({}, {InitAttendance})
    /\ seq = InitSeq
    /\ clock = InitClock
    /\ req = [w \in Workers |-> IdleReq]
    /\ hist = <<>>
    /\ faults = 0

NextProfile ==
    \E w \in Workers :
        \/ ProfileArrive(w)
        \/ CompleteProfileRun(w)
        \/ ProfileUpdateRun(w)
        \/ ProfileCommitted(w)
        \/ ProfileFault(w)
        \/ BootstrapStep(w)
        \/ SyncPushWork(w)

SpecProfile == InitProfile /\ [][NextProfile]_vars

(***************************************************************************)
(* complete_profile, profile_update and sync_push of one user in progress  *)
(* at the same time.                                                       *)
(***************************************************************************)
MaxProvisionCalls == 2      \* requests in one behaviour

M3 == <<"M", "3">>

ProvisionArrivals(e) ==
    {NewCall("complete_profile",
             [external_id |-> PaddedM2, department |-> Dept],
             ContextOf(UidB), e),
     NewCall("profile_update", [external_id |-> M3], ContextOf(UidB), e)}
    \cup {NewPush(MkBatch(b), e) :
             b \in {<<ProfileSyncBody(UidB), ProfileSyncSession>>,
                    <<ProfileSyncCheckIn(UidA), ProfileSyncCheckIn(UidB)>>}}

\* requests arrive while others are in progress
ProvisionArrive(w) ==
    /\ req[w].pc \in {"idle", "done"}
    /\ Len(hist) + Cardinality(Active) < MaxProvisionCalls
    /\ \E r \in ProvisionArrivals(Env) : req' = [req EXCEPT ![w] = r]
    /\ UNCHANGED <<db, seq, clock, faults, hist, firebase>>

NextProvision ==
    \E w \in Workers :
        \/ ProvisionArrive(w)
        \/ CompleteProfileRun(w)
        \/ ProfileUpdateRun(w)
        \/ ProfileCommitted(w)
        \/ SyncPushWork(w)

SpecProvision == InitProfile /\ [][NextProvision]_vars

(***************************************************************************)
(* create_course, update_course and delete_course.                         *)
(***************************************************************************)
\* str.upper(), character by character
UpperChar(c) ==
    IF \E k \in DOMAIN LowerChars : LowerChars[k] = c
    THEN UpperChars[CHOOSE k \in DOMAIN LowerChars : LowerChars[k] = c]
    ELSE c

Upper(s) == [k \in DOMAIN s |-> UpperChar(s[k])]

\* body.course_code.strip().upper()
CourseCode(body) == Upper(Strip(body.course_code))

ErrCourseUnique == "IntegrityError: duplicate key course_course_code_key"

\* raise HTTPException(status_code=409, detail="Course code already exists")
CodeConflict(r) ==
    Reply([r EXCEPT !.conflict = "course_code"],
          ErrorResponse(409, "Course code already exists"))

LecturerOf(user, d) == {l \in d.lecturers : l.user_id = user.id}

\* variant: any caller with a Lecturer row passes the owner check
OwnsAny(ls, course) == Found(ls)

\* not (`not lecturer or course.lecturer_id != lecturer.lecturer_id`)
Owns(ls, course) ==
    Found(ls) /\ course.lecturer_id = The(ls).lecturer_id

\* Course(course_code, course_name, lecturer_id); the id comes with the flush
PlannedCourse(body, lecturer) ==
    [course_id |-> NoId, course_name |-> Strip(body.course_name),
     course_code |-> CourseCode(body), lecturer_id |-> lecturer.lecturer_id]

\* POST /courses/create up to db.commit()
CreateCourse(r, e) ==
    LET d == e.db
        us == CallerOf(r, d)
        ls == LecturerOf(The(us), d)
    IN  IF ~ Found(us)
        THEN Out(Reply(r, ErrorResponse(404, "User not found")), e)
        ELSE IF The(us).role # LECTURER
        THEN Out(Reply(r, ErrorResponse(
                          403, "Only lecturers can create courses")), e)
        ELSE IF ~ Found(ls)
        THEN Out(Reply(r, ErrorResponse(
                          404, "Lecturer profile not found")), e)
        ELSE IF \E c \in d.courses : c.course_code = CourseCode(r.args)
        THEN Out(CodeConflict(r), e)
        ELSE Out([r EXCEPT !.plan.courses =
                               {PlannedCourse(r.args, The(ls))},
                           !.pc = "commit"], e)

\* the checks update_course and delete_course share: the response that
\* refuses the call, or one that is not sent when the caller owns the course
CourseRefusal(r, d, not_lecturer, not_owner) ==
    LET us == CallerOf(r, d)
        cs == {c \in d.courses : c.course_id = r.args.course_id}
    IN  IF ~ Found(us) THEN ErrorResponse(404, "User not found")
        ELSE IF The(us).role # LECTURER
        THEN ErrorResponse(403, not_lecturer)
        ELSE IF ~ Found(cs) THEN ErrorResponse(404, "Course not found")
        ELSE IF ~ Owns(LecturerOf(The(us), d), The(cs))
        THEN ErrorResponse(403, not_owner)
        ELSE [sent |-> FALSE]

\* PATCH /courses/{course_id} up to db.commit()
UpdateCourse(r, e) ==
    LET d == e.db
        refusal == CourseRefusal(r, d, "Only lecturers can update courses",
                                 "You can only update your own courses")
        course == CHOOSE c \in d.courses : c.course_id = r.args.course_id
        code == CourseCode(r.args)
    IN  IF refusal.sent THEN Out(Reply(r, refusal), e)
        ELSE IF /\ code # course.course_code
                /\ \E c \in d.courses : c.course_code = code
        THEN Out(CodeConflict(r), e)
        ELSE Out([r EXCEPT !.plan.courses_upd =
                               Dirty(@, [key |-> course.course_id,
                                         set |-> [course_code |-> code,
                                                  course_name |->
                                                      Strip(r.args.course_name)]]),
                           !.pc = "commit"], e)

\* DELETE /courses/{course_id} up to db.commit()
DeleteCourse(r, e) ==
    LET refusal == CourseRefusal(r, e.db, "Only lecturers can delete courses",
                                 "You can only delete your own courses")
    IN  IF refusal.sent THEN Out(Reply(r, refusal), e)
        ELSE Out([r EXCEPT !.pc = "commit"], e)

\* variant: the delete removes the Course row and nothing that references it
CascadeCourseOnly(d, course_id) ==
    [d EXCEPT !.courses = {c \in @ : c.course_id # course_id}]

\* db.delete(course): cascade="all, delete-orphan" on Course.enrollments,
\* Course.sessions and Session.attendance_records, ondelete="CASCADE" on
\* every foreign key to course and to session
Cascade(d, course_id) ==
    LET gone == {x.session_id : x \in {y \in d.sessions :
                                          y.course_id = course_id}}
    IN  [d EXCEPT
            !.courses = {c \in @ : c.course_id # course_id},
            !.sessions = {x \in @ : x.course_id # course_id},
            !.enrollments = {n \in @ : n.course_id # course_id},
            !.attendance = {a \in @ : /\ a.session_id \notin gone
                                      /\ a.course_id # course_id}]

\* CourseResponse(course_id, course_code, course_name, lecturer_id)
CourseResponse(course) ==
    OkResponse([course_id |-> course.course_id,
                course_code |-> course.course_code,
                course_name |-> course.course_name,
                lecturer_id |-> course.lecturer_id])

\* db.commit() of the three endpoints, and db.refresh(course)
CourseCommit(r, e) ==
    LET plan == Flushed(r.plan, e)
        e1 == Drawn(r.plan, e)
        d == View(plan, e.db)
        written == {c \in d.courses :
                       \/ c \in plan.courses
                       \/ \E u \in plan.courses_upd : u.key = c.course_id}
        integrity == [cls |-> SQLALCHEMY_ERROR, text |-> ErrCourseUnique]
    IN  IF r.kind = "delete_course"
        THEN Out(Reply(r, OkResponse(
                              [message |-> "Course deleted successfully"])),
                 [e EXCEPT !.db = Cascade(@, r.args.course_id)])
        ELSE IF written = {}
        THEN Raise(r, e1, [cls |-> SQLALCHEMY_ERROR, text |-> ErrStale])
        ELSE IF \E c \in e.db.courses :
                    /\ c.course_code = The(written).course_code
                    /\ c.course_id # The(written).course_id
        THEN Raise([r EXCEPT !.conflict = "course_code"], e1, integrity)
        ELSE Out(Reply(r, CourseResponse(The(written))),
                 [e1 EXCEPT !.db = d])

UidM == <<"p", "r", "o", "f", "2">>     \* the lecturer of the second course
UidK == <<"n", "e", "w", "p", "r", "o", "f">>    \* lecturer role, no Lecturer row

\* the store of the course scenario: two lecturers with one course each,
\* alice enrolled in both and present in the session of each
InitCourseDb ==
    [users |-> InitUsers \cup
                   {UserRow(5, UidM, LECTURER, <<"L", "2">>, <<"C", "S">>, TRUE),
                    UserRow(6, UidK, LECTURER, NoText, NoText, FALSE)},
     students |-> InitStudents,
     lecturers |-> InitLecturers \cup
                       {[lecturer_id |-> 2, user_id |-> 5,
                         department |-> <<"C", "S">>]},
     courses |-> InitCourses \cup
                     {[course_id |-> 2, course_name |-> <<"D", "a", "t", "a">>,
                       course_code |-> <<"C", "S", "2">>, lecturer_id |-> 2]},
     sessions |-> InitSessions \cup
                      {[session_id |-> 2, course_id |-> 2, start_time |-> 12,
                        end_time |-> 13, qr_code |-> NoText]},
     enrollments |-> {InitEnrollment,
                      [enrollment_id |-> 2, student_id |-> 1, course_id |-> 2]},
     attendance |-> {InitAttendance,
                     [attendance_id |-> 2, session_id |-> 2, student_id |-> 1,
                      course_id |-> 2, status |-> "present", timestamp |-> 12,
                      verified |-> FALSE]}]

InitCourseSeq ==
    [users |-> 7, students |-> 2, lecturers |-> 3, courses |-> 3,
     sessions |-> 3, enrollments |-> 3, attendance |-> 3]

MaxCourseCalls == 2     \* course and sync requests in one behaviour

CourseBody(code) ==
    [course_code |-> code, course_name |-> <<" ", "N", "e", "w">>]

CourseUpdate(course_id, code) ==
    [course_id |-> course_id, course_code |-> code,
     course_name |-> <<" ", "N", "e", "w">>]

Cs1 == <<" ", "c", "s", "1">>
Cs2 == <<"c", "s", "2", " ">>
Cs3 == <<"c", "S", "3">>

CourseArrivals(e) ==
    {NewCall("create_course", CourseBody(Cs1), ContextOf(UidL), e)}
    \cup {NewCall("create_course", CourseBody(Cs3), ContextOf(u), e) :
             u \in {UidL, UidM, UidK, UidA}}
    \cup {NewCall("update_course", CourseUpdate(1, c), ContextOf(UidL), e) :
             c \in {Cs2, Cs3}}
    \cup {NewCall("update_course", CourseUpdate(1, Cs3), ContextOf(UidM), e)}
    \cup {NewCall("delete_course", [course_id |-> 1], ContextOf(u), e) :
             u \in {UidL, UidM}}
    \cup {NewPush(MkBatch(b), e) :
             b \in {<<ProfileSyncSession>>,
                    <<ProfileSyncCheckIn(UidA), ProfileSyncCheckIn(UidB)>>}}

\* requests arrive while others are in progress
CourseArrive(w) ==
    /\ req[w].pc \in {"idle", "done"}
    /\ Len(hist) + Cardinality(Active) < MaxCourseCalls
    /\ \E r \in CourseArrivals(Env) : req' = [req EXCEPT ![w] = r]
    /\ UNCHANGED <<db, seq, clock, faults, hist, firebase>>

\* the DELETE waits for a session that holds a pending row referencing the
\* course
DeleteBlocked(w) ==
    /\ req[w].kind = "delete_course"
    /\ \E t \in Others(w) : \E x \in t.enrollments \cup t.sessions :
           x.course_id = req[w].args.course_id

CreateCourseRun(w) ==
    /\ InCall(w, "create_course")
    /\ Apply(w, CreateCourse(req[w], Env))
    /\ Logged(w)
    /\ UNCHANGED faults

UpdateCourseRun(w) ==
    /\ InCall(w, "update_course")
    /\ Apply(w, UpdateCourse(req[w], Env))
    /\ Logged(w)
    /\ UNCHANGED faults

DeleteCourseRun(w) ==
    /\ InCall(w, "delete_course")
    /\ Apply(w, DeleteCourse(req[w], Env))
    /\ Logged(w)
    /\ UNCHANGED faults

CourseCommitted(w) ==
    /\ req[w].kind \in {"create_course", "update_course", "delete_course"}
    /\ req[w].pc = "commit"
    /\ ~ DeleteBlocked(w)
    /\ Apply(w, CourseCommit(req[w], Env))
    /\ Logged(w)
    /\ UNCHANGED faults

\* a database call of the handler raises
CourseFault(w) ==
    /\ req[w].kind \in {"create_course", "update_course", "delete_course"}
    /\ req[w].pc \in {"run", "commit"}
    /\ faults < MaxFaults
    /\ faults' = faults + 1
    /\ \E x \in Exceptions : Apply(w, Raise(req[w], Env, x))
    /\ Logged(w)

InitCourse ==
    /\ firebase = ProcessStart(TRUE)
    /\ db = InitCourseDb
    /\ seq = InitCourseSeq
    /\ clock = InitClock
    /\ req = [w \in Workers |-> IdleReq]
    /\ hist = <<>>
    /\ faults = 0

NextCourse ==
    \E w \in Workers :
        \/ CourseArrive(w)
        \/ CreateCourseRun(w)
        \/ UpdateCourseRun(w)
        \/ DeleteCourseRun(w)
        \/ CourseCommitted(w)
        \/ CourseFault(w)
        \/ SyncPushWork(w)

SpecCourse == InitCourse /\ [][NextCourse]_vars

(***************************************************************************)
(* Two sync_push requests in progress at the same time.                    *)
(***************************************************************************)
MaxRaceOps == 1     \* length of each of the two racing batches

RaceBodies ==
    {[entity |-> "attendance", op |-> "create", payload |-> p] :
        p \in {[student_firebase_uid |-> UidA, session_id |-> <<"1">>,
                status |-> "late", face_verified |-> TRUE,
                timestamp |-> <<"T12", "Z">>],
               [student_firebase_uid |-> UidB, session_id |-> <<"1">>],
               [student_firebase_uid |-> UidB, session_id |-> <<"9">>]}}
    \cup {[entity |-> "session", op |-> "create",
           payload |-> [course_id |-> <<"1">>]]}

RaceBatches ==
    {MkBatch(b) : b \in UNION {[1..n -> RaceBodies] : n \in 1..MaxRaceOps}}

SyncPushArrive(w) ==
    /\ req[w].pc = "idle"
    /\ \E b \in RaceBatches : req' = [req EXCEPT ![w] = NewPush(b, Env)]
    /\ UNCHANGED <<db, seq, clock, faults, hist, firebase>>

NextRace ==
    \E w \in Workers :
        \/ SyncPushArrive(w)
        \/ SyncPushStep(w)

SpecRace == InitReliable /\ [][NextRace]_vars

(***************************************************************************)
(* Properties.                                                             *)
(***************************************************************************)
Pushes == {w \in Workers : req[w].kind = "push"}

Answers == {w \in Pushes : req[w].response.sent}

\* the results a response holds for the operation with this op_id
ResultsFor(results, id) ==
    SelectSeq(results, LAMBDA x : x.op_id = id)

\* C1: the response of sync_push has one result per operation of the
\* request, the k-th result carries the op_id of the k-th operation, and
\* the cursor is null, whatever the operations do and wherever the database
\* raises an error
C1_OneResultPerOp ==
    \A w \in Answers :
        /\ Len(req[w].response.results) = Len(req[w].ops)
        /\ \A k \in DOMAIN req[w].ops :
               req[w].response.results[k].op_id = req[w].ops[k].op_id
        /\ req[w].response.cursor = NoCursor

\* the failures of an operation that C4 names
PayloadErrors ==
    {"Missing session_id", "Session not found", ErrInt, ErrIso,
     ErrStudentUnique, ErrEnrollmentUnique, ErrNullCourse}

FailedWith(results, id, errors) ==
    \E k \in DOMAIN results :
        /\ results[k].op_id = id
        /\ ~ results[k].ok
        /\ results[k].error \in errors

\* C4: an operation that ends with ok=false (session not found, missing
\* or malformed session id, malformed timestamp, constraint violation) has
\* none of its writes committed, not even by the commit of a later
\* operation of the batch
C4_FailedOpCommitsNothing ==
    \A w \in Pushes :
        \A k \in req[w].committed :
            ~ FailedWith(req[w].results, req[w].ops[k].op_id, PayloadErrors)

\* the loop body of sync_push as one function: the step the request is at
SyncStep(r, e) ==
    CASE r.pc = "op" -> SyncDispatch(r, e)
      [] r.pc = "mkstudent" -> AutoCreateStudent(r, e)
      [] r.pc = "session" -> ResolveSession(r, e)
      [] r.pc = "mkenroll" -> AutoEnroll(r, e)
      [] r.pc = "attcheck" -> CheckAttendance(r, e)
      [] r.pc = "update" -> UpdateAttendance(r, e)
      [] r.pc = "insert" -> CreateAttendance(r, e)
      [] r.pc = "screate" -> CreateSession(r, e)
      [] r.pc = "refresh" -> RefreshCreated(r, e)
      [] r.pc = "log" -> LogLine(r, e)

\* a whole sync_push request run alone from environment e
RECURSIVE RunToEnd(_, _)
RunToEnd(r, e) ==
    IF r.i > Len(r.ops) THEN Respond(r, e)
    ELSE RunToEnd(SyncStep(r, e).r, SyncStep(r, e).e)

RunBatch(ops, e) == RunToEnd(NewPush(ops, e), e)

Remove(ops, f) == SubSeq(ops, 1, f - 1) \o SubSeq(ops, f + 1, Len(ops))

Failed(results, id) == \E k \in DOMAIN results :
                           results[k].op_id = id /\ ~ results[k].ok

\* C5: when an operation of a batch fails, the loop goes on: every
\* operation gets a result, every other operation gets the result it has
\* in the batch without the failing one, and the failing operation leaves
\* the committed store as it found it (no storage fault involved)
C5_FailureIsolation ==
    \A w \in Pushes :
        faults = 0 =>
            /\ req[w].pc = "op" /\ req[w].i > 1
                   /\ Failed(req[w].results, req[w].ops[req[w].i - 1].op_id)
               => db = req[w].opdb
            /\ req[w].response.sent =>
                   \A f \in DOMAIN req[w].ops :
                       /\ ResultsFor(req[w].response.results,
                                     req[w].ops[f].op_id) # <<>>
                       /\ Failed(req[w].response.results,
                                 req[w].ops[f].op_id) =>
                              \A k \in DOMAIN req[w].ops \ {f} :
                                  ResultsFor(req[w].response.results,
                                             req[w].ops[k].op_id)
                                  = ResultsFor(
                                        RunBatch(Remove(req[w].ops, f),
                                                 req[w].start).r.results,
                                        req[w].ops[k].op_id)

IsOther(op) == ~ IsAttendanceCreate(op) /\ ~ IsSessionCreate(op)

\* C7: an operation that is neither attendance/create nor session/create
\* gets ok=true without error, and processing it changes no table
C7_UnknownOpIsNoOp ==
    [][\A w \in Workers :
          (InLoop(w, "op") /\ IsOther(CurOp(req[w])) /\ req'[w] # req[w])
          => /\ db' = db
             /\ req'[w].results =
                    Append(req[w].results,
                           [op_id |-> CurOp(req[w]).op_id, ok |-> TRUE,
                            error |-> NoError])
             /\ req'[w].i = req[w].i + 1]_vars

\* an unknown operation has been answered while the session still holds
\* the uncommitted Student row of the failed operation before it
C7_Witness ==
    \E w \in Pushes :
        /\ req[w].pc = "op" /\ req[w].i > 1
        /\ IsOther(req[w].ops[req[w].i - 1])
        /\ req[w].tx.students # {}
        /\ req[w].results[Len(req[w].results)].ok

(***************************************************************************)
(* Properties of a request and of its retry, stated on the history.        *)
(***************************************************************************)
UsersOf(d, uid) == {u \in d.users : u.firebase_uid = uid}

StudentsOf(d, uid) ==
    {s \in d.students : \E u \in UsersOf(d, uid) : s.user_id = u.id}

SessionsOf(d, text) ==
    {x \in d.sessions : IsNumeric(text) /\ x.session_id = ParseInt(text)}

\* the batch is one attendance/create for a student-role user and a
\* session that both exist, with a timestamp that parses if it has one
IsCheckIn(ops, d) ==
    /\ Len(ops) = 1
    /\ IsAttendanceCreate(ops[1])
    /\ ~ Missing(ops[1].payload, "student_firebase_uid")
    /\ \E u \in UsersOf(d, ops[1].payload.student_firebase_uid) :
           u.role = STUDENT
    /\ ~ Missing(ops[1].payload, "session_id")
    /\ SessionsOf(d, ops[1].payload.session_id) # {}
    /\ ~ BadTimestamp(ops[1].payload, "timestamp")

AttendanceOf(d, uid, text) ==
    {a \in d.attendance :
        /\ \E x \in StudentsOf(d, uid) : a.student_id = x.student_id
        /\ \E x \in SessionsOf(d, text) : a.session_id = x.session_id}

AllOk(results) == \A k \in DOMAIN results : results[k].ok

\* C2: the same attendance/create pushed twice in sequence, for an
\* existing student user and an existing session, is answered ok=true both
\* times and leaves exactly one Attendance row for (session, student),
\* which carries the status, verified flag and timestamp of the operation
C2_RepeatedPushUpserts ==
    (Len(hist) = 2 /\ IsCheckIn(hist[1].ops, hist[1].before)) =>
        LET p == hist[1].ops[1].payload
            rows == AttendanceOf(hist[2].db, p.student_firebase_uid,
                                 p.session_id)
        IN  /\ Len(hist[1].results) = 1 /\ AllOk(hist[1].results)
            /\ Len(hist[2].results) = 1 /\ AllOk(hist[2].results)
            /\ Cardinality(rows) = 1
            /\ \A a \in rows :
                   /\ a.status = Get(p, "status", "present")
                   /\ a.verified = Get(p, "face_verified", FALSE)
                   /\ ~ Missing(p, "timestamp") =>
                          a.timestamp = FromIso(ReplaceZ(p.timestamp))

\* C6: attendance/create for a student-role user without Student row and
\* Enrollment, naming an existing session, is answered ok=true and commits
\* exactly one Student row of that user (registration number external_id,
\* else TEMP_ and the first 8 characters of the subject id), one Enrollment
\* of that student in the course of the session, and one Attendance row
C6_AutoProvisioningChain ==
    \A h \in Range(hist) :
        (/\ h.kind = "push"
         /\ IsCheckIn(h.ops, h.before)
         /\ StudentsOf(h.before, h.ops[1].payload.student_firebase_uid) = {})
        => LET p == h.ops[1].payload
               user == The(UsersOf(h.before, p.student_firebase_uid))
               session == The(SessionsOf(h.before, p.session_id))
               students == h.db.students \ h.before.students
               enrollments == h.db.enrollments \ h.before.enrollments
               attendance == h.db.attendance \ h.before.attendance
           IN  /\ Len(h.results) = 1 /\ AllOk(h.results)
               /\ Cardinality(students) = 1
               /\ \A x \in students :
                      x.user_id = user.id /\ x.matric_no = AutoMatric(user)
               /\ Cardinality(enrollments) = 1
               /\ \A n \in enrollments :
                      /\ n.student_id = The(students).student_id
                      /\ n.course_id = session.course_id
               /\ Cardinality(attendance) = 1
               /\ \A a \in attendance :
                      /\ a.student_id = The(students).student_id
                      /\ a.session_id = session.session_id

\* C8 as stated: the retry of a batch of attendance/create and
\* session/create operations leaves the store with the rows it had after
\* the first push
C8_RetryChangesNothing ==
    Len(hist) = 2 => hist[2].db = hist[1].db

OkSessionCreates(h) ==
    {k \in DOMAIN h.ops :
        /\ IsSessionCreate(h.ops[k])
        /\ ResultsFor(h.results, h.ops[k].op_id) # <<>>
        /\ AllOk(ResultsFor(h.results, h.ops[k].op_id))}

\* C8 amended: the retry leaves the User, Student, Lecturer, Course,
\* Enrollment and Attendance rows as they were after the first push and
\* keeps every Session row; it adds one Session row for each session/create
\* operation that it answers with ok=true
C8_RetryAddsOnlySessions ==
    Len(hist) = 2 =>
        /\ [hist[2].db EXCEPT !.sessions = {}]
               = [hist[1].db EXCEPT !.sessions = {}]
        /\ hist[1].db.sessions \subseteq hist[2].db.sessions
        /\ Cardinality(hist[2].db.sessions \ hist[1].db.sessions)
               = Cardinality(OkSessionCreates(hist[2]))

\* a retried batch whose failed first operation left a Student row that the
\* session/create after it committed, twice a new Session and once a Student
C8_Witness ==
    /\ Len(hist) = 2
    /\ hist[1].db.students # hist[1].before.students
    /\ hist[2].db.sessions # hist[1].db.sessions
    /\ \E k \in DOMAIN hist[2].ops : IsAttendanceCreate(hist[2].ops[k])

(***************************************************************************)
(* Properties of requests in progress at the same time.                    *)
(***************************************************************************)
\* C3: there is at most one Attendance row for a (session id, student id)
\* pair in every reachable state, also when two sync_push requests for the
\* same student and session interleave their existence check and insert
C3_OneAttendancePerPair ==
    \A a, b \in db.attendance :
        (a.session_id = b.session_id /\ a.student_id = b.student_id)
            => a = b

\* one request has passed the existence check and stands before its insert
\* while the other, for the same student and session, has executed its own
C3_Witness ==
    \E w \in Workers : \E v \in Workers \ {w} :
        /\ req[w].kind = "push" /\ req[w].pc = "insert"
        /\ req[v].kind = "push" /\ req[v].pc = "done"
        /\ req[v].ops = req[w].ops
        /\ req[v].start.db = req[w].start.db
        /\ Len(req[v].results) = 1
        /\ req[v].results[1].error = ErrNullCourse

Boots == {k \in DOMAIN hist : hist[k].kind = "boot"}

\* C9: two bootstrap calls in sequence with the same subject id, unknown
\* before the first: the first answers is_new_user=true, the second
\* is_new_user=false, and afterwards exactly one User row has the subject
\* id, with the id it had after the first call
C9_BootstrapTwice ==
    (/\ Len(hist) = 2
     /\ Boots = {1, 2}
     /\ hist[1].ctx.firebase_uid = hist[2].ctx.firebase_uid
     /\ UsersOf(hist[1].before, hist[1].ctx.firebase_uid) = {})
    => LET uid == hist[1].ctx.firebase_uid
       IN  /\ hist[1].response.status = 200
           /\ hist[1].response.is_new_user
           /\ hist[2].response.status = 200
           /\ ~ hist[2].response.is_new_user
           /\ Cardinality(UsersOf(hist[1].db, uid)) = 1
           /\ Cardinality(UsersOf(hist[2].db, uid)) = 1
           /\ The(UsersOf(hist[2].db, uid)).id
                  = The(UsersOf(hist[1].db, uid)).id

\* both calls for the new subject id have been answered, the second with
\* another role text and e-mail than the first
C9_Witness ==
    /\ Len(hist) = 2
    /\ Boots = {1, 2}
    /\ hist[1].ctx.firebase_uid = UidN
    /\ hist[2].ctx.firebase_uid = UidN
    /\ hist[1].ctx.email # hist[2].ctx.email
    /\ hist[1].response.role # hist[2].response.role

\* C10: under every interleaving of concurrent first bootstrap calls for
\* one subject id the store never holds two User rows with that subject id
C10_NoDuplicateUser ==
    \A u, v \in db.users : u.firebase_uid = v.firebase_uid => u = v

\* two calls for one subject id both found no User row; one has committed
\* its row and the other has been refused by the unique index
C10_Witness ==
    \E w \in Workers : \E v \in Workers \ {w} :
        /\ req[w].kind = "boot" /\ req[v].kind = "boot"
        /\ req[w].ctx.firebase_uid = req[v].ctx.firebase_uid
        /\ req[w].is_new /\ req[v].is_new
        /\ req[w].response.sent /\ req[w].response.status = 200
        /\ req[v].response.sent /\ req[v].response.status = 500
        /\ faults = 0
        /\ UsersOf(db, req[w].ctx.firebase_uid) # {}

\* C11: there is at most one Enrollment row for a (student id, course id)
\* pair in every reachable state, also when two sync_push requests
\* auto-enroll the same student in the same course at the same time: the
\* unique index refuses the second row although both requests found none
C11_OneEnrollmentPerPair ==
    \A a, b \in db.enrollments :
        (a.student_id = b.student_id /\ a.course_id = b.course_id) => a = b

\* both requests found no Enrollment; one has committed its row and the
\* other has been refused by the unique index
C11_Witness ==
    \E w \in Workers : \E v \in Workers \ {w} :
        /\ req[w].kind = "push" /\ req[v].kind = "push"
        /\ req[v].ops = req[w].ops
        /\ req[w].committed # {}
        /\ db.enrollments # {}
        /\ req[w].start.db.enrollments = {}
        /\ req[v].start.db.enrollments = {}
        /\ Len(req[v].results) = 1
        /\ req[v].results[1].error = ErrEnrollmentUnique

\* C13: bootstrap lower-cases the requested role and replaces every value
\* other than student and lecturer by student, without an error; every
\* User row has role student or lecturer in every reachable state
C13_RoleIsStudentOrLecturer ==
    /\ \A u \in db.users : u.role \in {STUDENT, LECTURER}
    /\ \A w \in Workers :
           (req[w].kind = "boot" /\ req[w].response.sent
                /\ req[w].response.status = 200)
           => req[w].response.role = NormalizeRole(req[w].body.role)
    /\ \A w \in Workers :
           (req[w].kind = "boot" /\ req[w].response.sent
                /\ req[w].response.status # 200)
           => (faults > 0 \/ ~ req[w].is_new
               \/ UsersOf(db, req[w].ctx.firebase_uid) # {})

\* calls with role " Lecturer" and with role "admin" have been answered:
\* the first stored lecturer, the second stored student
C13_Witness ==
    \E w \in Workers : \E v \in Workers \ {w} :
        /\ req[w].kind = "boot" /\ req[w].response.sent
        /\ req[w].response.status = 200
        /\ req[w].body.role = <<"a", "d", "m", "i", "n">>
        /\ req[w].response.role = STUDENT
        /\ req[v].kind = "boot" /\ req[v].response.sent
        /\ req[v].response.status = 200
        /\ req[v].body.role # LECTURER
        /\ req[v].response.role = LECTURER
        /\ \E u \in db.users : u.role = LECTURER /\ u.firebase_uid = UidN

(***************************************************************************)
(* Properties of the request-level failures.                               *)
(***************************************************************************)
\* the header is missing, does not start with "Bearer ", carries an empty
\* token, a token the verifier rejects, or a token without uid
Unauthenticated(r) ==
    LET token == Strip(RemovePrefix(r.header, BearerPrefix))
    IN  \/ r.header \in {NoText, <<>>}
        \/ ~ StartsWith(r.header, BearerPrefix)
        \/ token = <<>>
        \/ r.configured /\ ~ Verifies(token)
        \/ /\ r.configured /\ Verifies(token)
           /\ Missing(IssuedTokens[TokenKey(token)], "uid")

C16_OpaqueServerError ==
    \A w \in Workers :
        (req[w].kind \in Endpoints /\ req[w].pc \notin {"idle", "done"})
        => \A x, y \in Exceptions :
               x.cls = y.cls =>
                   Raise(req[w], Env, x).r.response
                       = Raise(req[w], Env, y).r.response

\* C17: in every reachable state a User's profile_completed flag is true
\* exactly when its external_id and its department are both set to
\* non-empty values, whatever bootstrap, complete_profile and
\* profile_update calls came before.
C17_ProfileCompletedIsComputed ==
    \A u \in db.users :
        u.profile_completed <=>
            (Truthy(u.external_id) /\ Truthy(u.department))

MatricUnique(rows) == \A x, y \in rows : x.matric_no = y.matric_no => x = y

\* the step of w is the answer to a profile call whose registration number
\* another Student row holds
RefusesMatric(w) ==
    /\ req[w].kind \in {"complete_profile", "profile_update"}
    /\ req[w].pc \in {"run", "commit"}
    /\ req'[w].pc = "done"
    /\ req'[w].conflict = "matric_no"

\* the step of w auto-provisions a Student whose registration number a
\* Student row of another user holds already
ProvisionsDuplicate(w) ==
    /\ InLoop(w, "mkstudent")
    /\ req'[w] # req[w]
    /\ \E x \in View(req[w].tx, db).students :
           /\ x.matric_no = AutoMatric(req[w].loc.user)
           /\ x.user_id # req[w].loc.user.id

\* C20: no two Student rows share a matric_no after any sequence of
\* complete_profile, profile_update and sync auto-provisioning (also of two
\* users whose subject ids share the first 8 characters); the operation that
\* would introduce a duplicate fails and creates or changes no Student row.
C20_MatricUnique ==
    /\ MatricUnique(db.students)
    /\ [][/\ MatricUnique(db'.students)
          /\ \A w \in Workers :
                /\ RefusesMatric(w) =>
                       /\ req'[w].response.status \in {400, 500}
                       /\ db'.students = db.students
                /\ ProvisionsDuplicate(w) =>
                       /\ Len(req'[w].results) = Len(req[w].results) + 1
                       /\ ~ req'[w].results[Len(req'[w].results)].ok
                       /\ req'[w].tx.students = {}
                       /\ db'.students = db.students]_vars

\* a profile call has been refused for its registration number, and a
\* sync batch has committed an auto-provisioned Student
C20_Witness ==
    /\ \E w \in Workers :
           /\ req[w].kind \in {"complete_profile", "profile_update"}
           /\ req[w].pc = "done"
           /\ req[w].conflict = "matric_no"
    /\ \E x \in db.students : x.matric_no = TempMatric(UidB)

\* the answered calls that hit a uniqueness conflict
Conflicting ==
    {w \in Workers :
        /\ req[w].pc = "done"
        /\ "conflict" \in DOMAIN req[w]
        /\ req[w].conflict \in {"matric_no", "course_code"}}

\* C15: in the profile and course endpoints every uniqueness conflict (a
\* duplicate registration number, a duplicate course code) is answered
\* with one and the same status, which is none of NotFound (404),
\* Unauthenticated (401) and the generic server error (500).
C15_OneConflictStatus ==
    \A w \in Conflicting, v \in Conflicting :
        /\ req[w].response.status = req[v].response.status
        /\ req[w].response.status \notin {401, 404, 500}

CodeUnique(rows) == \A x, y \in rows : x.course_code = y.course_code => x = y

\* the step of w answers a create_course or update_course call whose
\* normalised course code another Course row holds
RefusesCode(w) ==
    /\ req[w].kind \in {"create_course", "update_course"}
    /\ req[w].pc \in {"run", "commit"}
    /\ req'[w].pc = "done"
    /\ req'[w].conflict = "course_code"

\* C12: create_course, and update_course changing the code, with a code that
\* equals an existing course's code after strip() and upper() is answered
\* 409 and leaves the store unchanged, so that no two Course rows share a
\* code; also when two such requests run at the same time.
C12_DuplicateCodeIsConflict ==
    /\ CodeUnique(db.courses)
    /\ [][/\ CodeUnique(db'.courses)
          /\ \A w \in Workers :
                RefusesCode(w) =>
                    /\ req'[w].response.status = 409
                    /\ db' = db]_vars

\* the Lecturer rows of the caller of r in the store d, when the caller has
\* the lecturer role
LecturerCalling(r, d) ==
    {l \in d.lecturers :
        \E u \in CallerOf(r, d) : u.role = LECTURER /\ l.user_id = u.id}

\* the caller of r is the lecturer the Course row names
OwnerCalls(r, d, course) ==
    \E l \in LecturerCalling(r, d) : l.lecturer_id = course.lecturer_id

\* the course an update_course or delete_course call names, in the store d
Target(r, d) == {c \in d.courses : c.course_id = r.args.course_id}

\* C18: a Course row appears only in a step of a create_course call of a
\* lecturer-role user that has a Lecturer row (and names that lecturer); a
\* Course row changes or disappears only in a step of an update_course or
\* delete_course call of its own lecturer; such a call by anybody else is
\* answered 403, or 404 when user or course is missing, and leaves the
\* store unchanged (a database failure injected into the call is answered
\* 500, the store unchanged as well).
C18_OnlyTheOwner ==
    [][/\ \A c \in db'.courses :
              (\A o \in db.courses : o.course_id # c.course_id) =>
                  \E w \in Workers :
                      /\ req[w].kind = "create_course"
                      /\ req'[w].pc = "done"
                      /\ \E l \in LecturerCalling(req[w], db) :
                             c.lecturer_id = l.lecturer_id
       /\ \A c \in db.courses :
              c \notin db'.courses =>
                  \E w \in Workers :
                      /\ req[w].kind \in {"update_course", "delete_course"}
                      /\ req'[w].pc = "done"
                      /\ req[w].args.course_id = c.course_id
                      /\ OwnerCalls(req[w], db, c)
       /\ \A w \in Workers :
              (/\ req[w].kind \in {"update_course", "delete_course"}
               /\ req[w].pc \in {"run", "commit"}
               /\ req'[w].pc = "done"
               /\ \A c \in Target(req[w], req[w].start.db) :
                      ~ OwnerCalls(req[w], req[w].start.db, c)) =>
                  /\ db' = db
                  /\ req'[w].response.status \in
                         IF faults' = faults THEN {403, 404} ELSE {500}]_vars

\* the lecturer of the second course has been refused the deletion of the
\* first course, which is still there with its session, and a lecturer has
\* created a third course
C18_Witness ==
    /\ \E w \in Workers :
           /\ req[w].kind = "delete_course"
           /\ req[w].pc = "done"
           /\ req[w].ctx.firebase_uid = UidM
           /\ req[w].response.status = 403
    /\ \E c \in db.courses : c.course_id = 1 /\ c.lecturer_id = 1
    /\ \E x \in db.sessions : x.course_id = 1
    /\ \E c \in db.courses : c.course_id \notin {1, 2}

Ids(rows, key) == {x[key] : x \in rows}

ReferencesHold(d) ==
    /\ \A x \in d.sessions : x.course_id \in Ids(d.courses, "course_id")
    /\ \A n \in d.enrollments :
           /\ n.student_id \in Ids(d.students, "student_id")
           /\ n.course_id \in Ids(d.courses, "course_id")
    /\ \A a \in d.attendance :
           /\ a.session_id \in Ids(d.sessions, "session_id")
           /\ a.student_id \in Ids(d.students, "student_id")

\* the step of w is the commit of a delete_course call
Deletes(w) ==
    /\ req[w].kind = "delete_course"
    /\ req[w].pc = "commit"
    /\ req'[w].pc = "done"
    /\ req'[w].response.status = 200

\* C19: in every reachable state every Session references an existing
\* Course, every Enrollment an existing Student and Course, every Attendance
\* an existing Session and Student; delete_course removes the course with
\* its Sessions, its Enrollments and the Attendance rows of those sessions,
\* and leaves every other row as it was.
C19_ReferentialIntegrity ==
    /\ ReferencesHold(db)
    /\ [][/\ ReferencesHold(db')
          /\ \A w \in Workers :
                Deletes(w) =>
                    LET id == req[w].args.course_id
                        gone == Ids({x \in db.sessions : x.course_id = id},
                                    "session_id")
                    IN  /\ db'.courses = {c \in db.courses : c.course_id # id}
                        /\ db'.sessions =
                               {x \in db.sessions : x.course_id # id}
                        /\ db'.enrollments =
                               {n \in db.enrollments : n.course_id # id}
                        /\ db'.attendance =
                               {a \in db.attendance : a.session_id \notin gone}
                        /\ db'.users = db.users
                        /\ db'.students = db.students
                        /\ db'.lecturers = db.lecturers]_vars

\* the first course has been deleted with everything under it, after a sync
\* batch added a session to it; the second course has its rows
C19_Witness ==
    /\ \E w \in Workers :
           /\ req[w].kind = "delete_course"
           /\ req[w].pc = "done"
           /\ req[w].response.status = 200
    /\ \E k \in DOMAIN hist :
           /\ hist[k].kind = "push"
           /\ \E x \in hist[k].db.sessions :
                  x.course_id = 1 /\ x.session_id # 1
    /\ Ids(db.courses, "course_id") = {2}
    /\ Ids(db.sessions, "session_id") = {2}
    /\ Ids(db.enrollments, "course_id") = {2}
    /\ Ids(db.attendance, "attendance_id") = {2}

Reboots(w) ==
    /\ InBoot(w, "update")
    /\ req'[w].pc = "done"
    /\ req'[w].response.status = 200

C29_BothBootstrapsSucceed ==
    \A j \in Boots, k \in Boots :
        (/\ j # k
         /\ faults = 0
         /\ hist[j].ctx.firebase_uid = hist[k].ctx.firebase_uid
         /\ UsersOf(hist[j].before, hist[j].ctx.firebase_uid) = {}
         /\ UsersOf(hist[k].before, hist[k].ctx.firebase_uid) = {})
        => /\ hist[j].response.status = 200
           /\ hist[k].response.status = 200
           /\ hist[j].response.is_new_user # hist[k].response.is_new_user

\* the requests that have just finished an operation: the one before
\* position i, which began in the committed store opdb
Finished == {w \in Pushes : req[w].pc = "op" /\ req[w].i > 1}

LastOp(w) == req[w].ops[req[w].i - 1]

\* the payload names a course by a number
NumbersCourse(p) == ~ Missing(p, "course_id") /\ IsNumeric(p.course_id)

NamesCourse(p, d) ==
    /\ NumbersCourse(p)
    /\ ParseInt(p.course_id) \in {c.course_id : c \in d.courses}

\* what C23 says of the session/create operation w has just finished
SessionCreated(w) ==
    LET op == LastOp(w)
        p == op.payload
        new == db.sessions \ req[w].opdb.sessions
        results == ResultsFor(req[w].results, op.op_id)
    IN  IF NamesCourse(p, req[w].opdb)
        THEN /\ Cardinality(new) = 1
             /\ \A x \in new :
                    /\ x.course_id = ParseInt(p.course_id)
                    /\ Missing(p, "end_time") =>
                           x.end_time = x.start_time + OneHour
             /\ Len(results) = 1
             /\ results[1].ok
        ELSE /\ new = {}
             /\ Len(results) = 1
             /\ ~ results[1].ok
             /\ NumbersCourse(p) => results[1].error = "Course not found"

IdText(n) == <<DigitChars[n + 1]>>

\* attendance/create of the user uid for the session x
CheckInFor(uid, x) ==
    [entity |-> "attendance", op |-> "create",
     payload |-> [student_firebase_uid |-> uid,
                  session_id |-> IdText(x.session_id)]]

\* C24: a batch of two attendance/create operations for the same
\* student-role user without Student row and two sessions of the same
\* course, processed in order, leaves exactly one new Student, one new
\* Enrollment and two new Attendance rows: the second operation sees the
\* Student and the Enrollment the first one created
C24_LaterOpSeesEarlier ==
    \A u \in db.users, x1, x2 \in db.sessions :
        (/\ Quiet
         /\ u.role = STUDENT
         /\ StudentsOf(db, u.firebase_uid) = {}
         /\ x1.session_id < x2.session_id
         /\ x1.course_id = x2.course_id)
        => LET ops == MkBatch(<<CheckInFor(u.firebase_uid, x1),
                                CheckInFor(u.firebase_uid, x2)>>)
               after == RunBatch(ops, Env).e.db
           IN  /\ Cardinality(after.students \ db.students) = 1
               /\ Cardinality(after.enrollments \ db.enrollments) = 1
               /\ Cardinality(after.attendance \ db.attendance) = 2

\* the Attendance rows an attendance/create with payload p finds in store d
ExistingFor(p, d) ==
    IF \/ Missing(p, "student_firebase_uid")
       \/ Missing(p, "session_id")
    THEN {}
    ELSE AttendanceOf(d, p.student_firebase_uid, p.session_id)

\* C25: an attendance/create operation that finds an existing Attendance
\* row for (session, student) overwrites its status, verified flag and
\* timestamp with those of the operation (the processing time when the
\* payload has no timestamp) and leaves its attendance id, session id and
\* student id as they were (timestamp well-formed, no storage fault)
C25_ExistingRowOverwritten ==
    \A w \in Finished :
        LET p == LastOp(w).payload
        IN  (/\ faults = 0
             /\ IsAttendanceCreate(LastOp(w))
             /\ ~ BadTimestamp(p, "timestamp"))
            => \A old \in ExistingFor(p, req[w].opdb) :
                   \E a \in db.attendance :
                       /\ a.attendance_id = old.attendance_id
                       /\ a.session_id = old.session_id
                       /\ a.student_id = old.student_id
                       /\ a.status = Get(p, "status", "present")
                       /\ a.verified = Get(p, "face_verified", FALSE)
                       /\ a.timestamp \in
                              IF Missing(p, "timestamp")
                              THEN req[w].start.clock .. clock
                              ELSE {FromIso(ReplaceZ(p.timestamp))}

\* attendance/create naming the user uid and no session, followed by a
\* session/create for the course c
NamingThenSession(uid, c) ==
    MkBatch(<<[entity |-> "attendance", op |-> "create",
               payload |-> [student_firebase_uid |-> uid]],
              [entity |-> "session", op |-> "create",
               payload |-> [course_id |-> IdText(c.course_id)]]>>)

\* C26: sync_push creates a Student row only for a student-role user: a
\* batch with an attendance/create naming a lecturer-role user leaves no
\* Student row for that user, and no sync_push adds a Lecturer row
C26_StudentRowsForStudentsOnly ==
    /\ \A h \in Range(hist) :
           h.kind = "push" => h.db.lecturers = h.before.lecturers
    /\ \A u \in db.users, c \in db.courses :
           (Quiet /\ u.role = LECTURER)
           => LET after == RunBatch(NamingThenSession(u.firebase_uid, c),
                                    Env).e.db
              IN  /\ StudentsOf(after, u.firebase_uid) = {}
                  /\ after.lecturers = db.lecturers

\* the answered profile calls that gave a registration number and were
\* accepted
ProfileAccepted ==
    {h \in Range(hist) :
        /\ h.kind \in {"complete_profile", "profile_update"}
        /\ h.response.status = 200
        /\ GivenText(h.request.args, "external_id")}

\* the text of the body, or the stored one when the body leaves it out
GivenOr(body, key, stored) ==
    IF GivenText(body, key) THEN Strip(body[key]) ELSE stored

\* C27: when the caller of an accepted complete_profile or profile_update
\* has a Student row (auto-provisioned by sync_push with a placeholder
\* registration number, or any other), the caller has exactly one Student
\* row afterwards, with the same student id, the registration number and
\* the department of the call, and the Enrollment and Attendance rows that
\* referenced the Student row are still there
C27_PlaceholderBecomesReal ==
    \A h \in ProfileAccepted :
        LET uid == h.request.ctx.firebase_uid
            stored == The(UsersOf(h.before, uid)).department
        IN  \A x \in StudentsOf(h.before, uid) :
                /\ StudentsOf(h.db, uid) =
                       {[x EXCEPT
                            !.matric_no = Strip(h.request.args.external_id),
                            !.department = GivenOr(h.request.args,
                                                   "department", stored)]}
                /\ {n \in h.before.enrollments : n.student_id = x.student_id}
                       \subseteq h.db.enrollments
                /\ {a \in h.before.attendance : a.student_id = x.student_id}
                       \subseteq h.db.attendance

\* sync_push committed a Student row with the placeholder number of user
\* 'user-000b', whose profile call then put M2 on the same row
C27_Witness ==
    \E h \in ProfileAccepted :
        /\ h.request.ctx.firebase_uid = UidB
        /\ \E x \in h.before.students :
               /\ x.user_id = 2
               /\ x.matric_no = TempMatric(UidB)
               /\ \E y \in h.db.students :
                      /\ y.student_id = x.student_id
                      /\ y.matric_no = <<"M", "2">>
                      /\ y.department = Dept

\* C28: every Attendance row of the store has a course_id, which is the
\* course_id of the Session the row references, be the row migrated from
\* the earlier schema or written by sync_push
C28_AttendanceCourseOfSession ==
    \A a \in db.attendance :
        /\ a.course_id # NoId
        /\ \E x \in db.sessions :
               x.session_id = a.session_id /\ x.course_id = a.course_id

\* sync_push has committed its values on the migrated Attendance row, which
\* has the course of its session
C28_Witness ==
    \E a \in db.attendance :
        /\ a.attendance_id = OldAttendance.attendance_id
        /\ a.status = "late"
        /\ a.timestamp = 12
        /\ a.course_id = 1
        /\ \E w \in Finished :
               /\ IsAttendanceCreate(LastOp(w))
               /\ ResultsFor(req[w].results, LastOp(w).op_id)[1].ok

(***************************************************************************)
(* _init_firebase: the lazy initialisation of the Firebase Admin client,   *)
(* step by step. get_auth_context is a plain def, which the framework runs *)
(* in its thread pool: the threads of two requests interleave between the  *)
(* read of _app_initialized, initialize_app and the write of the flag.     *)
(***************************************************************************)
MaxInitCalls == 2    \* authenticated requests in one behaviour

Step(r, f) == [r |-> r, f |-> f]

\* the header passes the three checks that come before _init_firebase()
ReachesInit(r) == GetAuthContext(r.header, FALSE) = AuthInitError

\* verify_id_token and what follows, once _init_firebase() has returned
Verified(r, e) == Authenticate([r EXCEPT !.configured = TRUE], e).r

\* get_auth_context up to `if _app_initialized: return` and the settings
CheckInitialized(r, e, f) ==
    IF ~ ReachesInit(r)
    THEN Step(Reply(r, GetAuthContext(r.header, FALSE).response), f)
    ELSE IF f.app_initialized THEN Step(Verified(r, e), f)
    ELSE IF ~ f.configured THEN Step(Reply(r, AuthInitError.response), f)
    ELSE Step([r EXCEPT !.pc = "initialize"], f)

\* firebase_admin.initialize_app(cred): ValueError when the default app
\* exists already, which get_auth_context answers with 500
InitializeApp(r, e, f) ==
    IF f.apps > 0
    THEN Step(Reply(r, AuthInitError.response), [f EXCEPT !.calls = @ + 1])
    ELSE Step([r EXCEPT !.pc = "initialized"],
              [f EXCEPT !.apps = 1, !.calls = @ + 1])

\* _app_initialized = True; return; then the token is verified
SetInitialized(r, e, f) ==
    Step(Verified(r, e), [f EXCEPT !.app_initialized = TRUE])

InitHeaders == {NoText, BearerPrefix \o <<"x">>, BearerPrefix \o <<"a">>}

FirebaseArrive(w) ==
    /\ req[w].pc \in {"idle", "done"}
    /\ Len(hist) + Cardinality(Active) < MaxInitCalls
    /\ \E endpoint \in {"get_student_courses", "get_student_sessions"},
          header \in InitHeaders :
           req' = [req EXCEPT ![w] =
                      [NewHttp(endpoint, header, firebase.configured,
                               [role |-> STUDENT], Env)
                          EXCEPT !.pc = "check"]]
    /\ UNCHANGED <<db, seq, clock, faults, hist, firebase>>

InInit(w, pc) == req[w].kind = "http" /\ req[w].pc = pc

Stepped(w, step) ==
    /\ req' = [req EXCEPT ![w] = step.r]
    /\ firebase' = step.f
    /\ UNCHANGED <<db, seq, clock, faults>>
    /\ Logged(w)

FirebaseCheck(w) ==
    /\ InInit(w, "check")
    /\ Stepped(w, CheckInitialized(req[w], Env, firebase))

FirebaseInitialize(w) ==
    /\ InInit(w, "initialize")
    /\ Stepped(w, InitializeApp(req[w], Env, firebase))

FirebaseInitialized(w) ==
    /\ InInit(w, "initialized")
    /\ Stepped(w, SetInitialized(req[w], Env, firebase))

InitFirebase ==
    /\ \E configured \in BOOLEAN : firebase = ProcessStart(configured)
    /\ db = InitDb({InitEnrollment}, {InitAttendance})
    /\ seq = InitSeq
    /\ clock = InitClock
    /\ req = [w \in Workers |-> IdleReq]
    /\ hist = <<>>
    /\ faults = 0

NextFirebase ==
    \E w \in Workers :
        \/ FirebaseArrive(w)
        \/ FirebaseCheck(w)
        \/ FirebaseInitialize(w)
        \/ FirebaseInitialized(w)
        \/ StudentCoursesRun(w)
        \/ StudentSessionsRun(w)

SpecFirebase == InitFirebase /\ [][NextFirebase]_vars

\* C30: the Firebase Admin client is initialised at most once in a process:
\* initialize_app is called at most once, also when several first requests
\* have read _app_initialized before any of them has set it, and with the
\* credentials configured no request is answered with the 500 "Server auth
\* is not configured" error
C30_InitializedOnce ==
    /\ firebase.calls <= 1
    /\ firebase.configured =>
           \A h \in Range(hist) : h.response # AuthInitError.response

==============================================================================
